---- MODULE Spec2Model ----
(***************************************************************************)
(* playwright-api-spy: the interception proxy (src/src/wrapper.ts) and the *)
(* per-test capture instance (src/src/api-spy.ts).                         *)
(*                                                                         *)
(* JavaScript values are tagged records [t |-> type, v |-> payload].       *)
(* A JavaScript string is a sequence of one-character strings, so that     *)
(* length, substring and concatenation are the sequence operations.        *)
(***************************************************************************)
EXTENDS Integers, Sequences, FiniteSets, TLC

(***************************************************************************)
(* Bounds of the model.                                                    *)
(***************************************************************************)
MaxCalls == 2        \* intercepted calls issued by the test
MaxHooks == 1        \* hooks registered in total over the three lists
BodyLimit == 12      \* the instance's configured maxBodyLength
MaxWorkers == 2      \* worker processes of a run
MaxAdds == 3         \* calls of addEntries followed since the store was emptied

(***************************************************************************)
(* JavaScript values.                                                      *)
(***************************************************************************)
Undefined == [t |-> "undefined", v |-> <<>>]
JStr(s) == [t |-> "string", v |-> s]
JNum(n) == [t |-> "number", v |-> n]
JObj(members) == [t |-> "object", v |-> members]   \* <<key, value>> pairs
JArr(items) == [t |-> "array", v |-> items]
JBool(b) == [t |-> "boolean", v |-> b]
Infinity == [t |-> "infinity", v |-> <<>>]          \* the number Infinity

\* JavaScript truthiness, as used by `x ? a : b` and `if (x)`.
Truthy(x) ==
    CASE x.t = "undefined" -> FALSE
      [] x.t = "string" -> Len(x.v) > 0
      [] x.t = "number" -> x.v # 0
      [] x.t = "boolean" -> x.v
      [] OTHER -> TRUE

\* typeof x === 'object' && x !== null
IsObject(x) == x.t \in {"object", "array"}

DigitChars == <<"0", "1", "2", "3", "4", "5", "6", "7", "8", "9">>

RECURSIVE Digits(_)
Digits(n) ==
    IF n < 10 THEN <<DigitChars[n + 1]>>
    ELSE Digits(n \div 10) \o <<DigitChars[(n % 10) + 1]>>

DigitValue(c) == CHOOSE d \in 0..9 : DigitChars[d + 1] = c

IsDigit(c) == \E d \in 1..10 : DigitChars[d] = c

(***************************************************************************)
(* JSON.stringify over the values above (no whitespace; the model's        *)
(* strings contain no character that needs escaping).  A text is a         *)
(* sequence of tokens: single characters, or a whole word that the model   *)
(* never looks into (true, false, a name).  Members whose value is         *)
(* undefined are left out.                                                 *)
(***************************************************************************)
DefinedMembers(ms) == SelectSeq(ms, LAMBDA m : m[2].t # "undefined")

RECURSIVE JsonStringify(_)
RECURSIVE StringifyMembers(_)
RECURSIVE StringifyItems(_)

StringifyMembers(ms) ==
    IF ms = <<>> THEN <<>>
    ELSE <<"\"">> \o ms[1][1] \o <<"\"", ":">> \o JsonStringify(ms[1][2])
         \o (IF Len(ms) > 1 THEN <<",">> \o StringifyMembers(Tail(ms)) ELSE <<>>)

StringifyItems(xs) ==
    IF xs = <<>> THEN <<>>
    ELSE JsonStringify(xs[1])
         \o (IF Len(xs) > 1 THEN <<",">> \o StringifyItems(Tail(xs)) ELSE <<>>)

JsonStringify(x) ==
    CASE x.t = "string" -> <<"\"">> \o x.v \o <<"\"">>
      [] x.t = "number" -> Digits(x.v)
      [] x.t = "boolean" -> <<IF x.v THEN "true" ELSE "false">>
      [] x.t = "object" -> <<"{">> \o StringifyMembers(DefinedMembers(x.v)) \o <<"}">>
      [] x.t = "array" -> <<"[">> \o StringifyItems(x.v) \o <<"]">>
      \* null, and a number that is not finite, are written as null
      [] x.t \in {"null", "infinity"} -> <<"null">>
      [] OTHER -> <<>>

(***************************************************************************)
(* JSON.parse: a recursive-descent parser.  Each parser takes the text and *)
(* a position and returns [ok, pos, val]; JSON.parse throws a SyntaxError  *)
(* when the text is not exactly one JSON value.                            *)
(***************************************************************************)
ParseFail == [ok |-> FALSE, pos |-> 0, val |-> Undefined]

RECURSIVE ScanString(_, _)
\* position of the closing quote of a string whose body starts at i, or 0
ScanString(s, i) ==
    IF i > Len(s) THEN 0
    ELSE IF s[i] = "\"" THEN i
    ELSE ScanString(s, i + 1)

RECURSIVE ScanDigits(_, _)
\* first position at or after i that does not hold a digit
ScanDigits(s, i) ==
    IF i > Len(s) \/ ~IsDigit(s[i]) THEN i ELSE ScanDigits(s, i + 1)

RECURSIVE NumberOf(_)
NumberOf(ds) ==
    IF ds = <<>> THEN 0
    ELSE 10 * NumberOf(SubSeq(ds, 1, Len(ds) - 1)) + DigitValue(ds[Len(ds)])

ParseString(s, i) ==
    \* s[i] is the opening quote
    LET close == ScanString(s, i + 1) IN
    IF close = 0 THEN ParseFail
    ELSE [ok |-> TRUE, pos |-> close + 1, val |-> JStr(SubSeq(s, i + 1, close - 1))]

ParseNumber(s, i) ==
    LET stop == ScanDigits(s, i) IN
    \* JSON forbids leading zeros
    IF stop - i > 1 /\ s[i] = "0" THEN ParseFail
    ELSE [ok |-> TRUE, pos |-> stop, val |-> JNum(NumberOf(SubSeq(s, i, stop - 1)))]

RECURSIVE ParseValue(_, _)
RECURSIVE ParseMembers(_, _, _)
RECURSIVE ParseItems(_, _, _)

\* members of an object, i is the position of the next key's opening quote
ParseMembers(s, i, acc) ==
    IF i > Len(s) \/ s[i] # "\"" THEN ParseFail
    ELSE LET k == ParseString(s, i) IN
         IF ~k.ok \/ k.pos > Len(s) \/ s[k.pos] # ":" THEN ParseFail
         ELSE LET val == ParseValue(s, k.pos + 1) IN
              IF ~val.ok \/ val.pos > Len(s) THEN ParseFail
              ELSE LET acc2 == Append(acc, <<k.val.v, val.val>>) IN
                   IF s[val.pos] = "}"
                   THEN [ok |-> TRUE, pos |-> val.pos + 1, val |-> JObj(acc2)]
                   ELSE IF s[val.pos] = ","
                   THEN ParseMembers(s, val.pos + 1, acc2)
                   ELSE ParseFail

\* items of an array, i is the position of the next item
ParseItems(s, i, acc) ==
    LET val == ParseValue(s, i) IN
    IF ~val.ok \/ val.pos > Len(s) THEN ParseFail
    ELSE LET acc2 == Append(acc, val.val) IN
         IF s[val.pos] = "]"
         THEN [ok |-> TRUE, pos |-> val.pos + 1, val |-> JArr(acc2)]
         ELSE IF s[val.pos] = ","
         THEN ParseItems(s, val.pos + 1, acc2)
         ELSE ParseFail

ParseValue(s, i) ==
    IF i > Len(s) THEN ParseFail
    ELSE CASE s[i] = "\"" -> ParseString(s, i)
           [] IsDigit(s[i]) -> ParseNumber(s, i)
           [] s[i] \in {"true", "false"} ->
                [ok |-> TRUE, pos |-> i + 1, val |-> JBool(s[i] = "true")]
           [] s[i] = "null" ->
                [ok |-> TRUE, pos |-> i + 1, val |-> [t |-> "null", v |-> <<>>]]
           [] s[i] = "{" ->
                IF i + 1 <= Len(s) /\ s[i + 1] = "}"
                THEN [ok |-> TRUE, pos |-> i + 2, val |-> JObj(<<>>)]
                ELSE ParseMembers(s, i + 1, <<>>)
           [] s[i] = "[" ->
                IF i + 1 <= Len(s) /\ s[i + 1] = "]"
                THEN [ok |-> TRUE, pos |-> i + 2, val |-> JArr(<<>>)]
                ELSE ParseItems(s, i + 1, <<>>)
           [] OTHER -> ParseFail

\* JSON.parse(text): [ok |-> FALSE] stands for the thrown SyntaxError
JsonParse(s) ==
    LET r == ParseValue(s, 1) IN
    IF r.ok /\ r.pos = Len(s) + 1 THEN [ok |-> TRUE, val |-> r.val]
    ELSE [ok |-> FALSE, val |-> Undefined]

(***************************************************************************)
(* api-spy.ts: parseBody and truncateBody.                                 *)
(***************************************************************************)
\* `try { return JSON.parse(body) } catch { return body }`
ParsedOr(r, body) == IF r.ok THEN r.val ELSE body

parseBody(body) ==
    IF body.t = "string" THEN ParsedOr(JsonParse(body.v), body) ELSE body

\* the marker appended to a hard-cut string
TruncationMarker(omitted) ==
    <<".", ".", ".", " ", "[", "t", "r", "u", "n", "c", "a", "t", "e", "d", ",", " ">>
        \o Digits(omitted)
        \o <<" ", "m", "o", "r", "e", " ", "c", "h", "a", "r", "s", "]">>

\* mutant: the marker states the length of the whole body
truncateBodyWholeLength(body, maxLength) ==
    IF body.t = "string" /\ Len(body.v) > maxLength
    THEN [ok |-> TRUE,
          val |-> JStr(SubSeq(body.v, 1, maxLength) \o TruncationMarker(Len(body.v)))]
    ELSE IF IsObject(body) /\ Len(JsonStringify(body)) > maxLength
    THEN JsonParse(SubSeq(JsonStringify(body), 1, maxLength) \o <<"\"", "}">>)
    ELSE [ok |-> TRUE, val |-> body]

\* [ok |-> FALSE] stands for the SyntaxError thrown by the re-parse
truncateBody(body, maxLength) ==
    IF body.t = "string" /\ Len(body.v) > maxLength
    THEN [ok |-> TRUE,
          val |-> JStr(SubSeq(body.v, 1, maxLength)
                       \o TruncationMarker(Len(body.v) - maxLength))]
    ELSE IF IsObject(body) /\ Len(JsonStringify(body)) > maxLength
    THEN JsonParse(SubSeq(JsonStringify(body), 1, maxLength) \o <<"\"", "}">>)
    ELSE [ok |-> TRUE, val |-> body]

(***************************************************************************)
(* api-spy.ts: extractPath.  A url is a character sequence; an absolute    *)
(* url starts with the token Origin (scheme and host), which new URL()     *)
(* accepts; any other url makes new URL() throw and is returned verbatim.  *)
(***************************************************************************)
Origin == "https://h"

extractPath(url) ==
    IF url # <<>> /\ url[1] = Origin THEN SubSeq(url, 2, Len(url)) ELSE url

(***************************************************************************)
(* new RegExp(pattern).test(path) for patterns made of literal characters  *)
(* and the quantifier "*".  A "*" with nothing to repeat (at the start, or *)
(* after another "*") makes the constructor throw a SyntaxError.           *)
(***************************************************************************)
RegExpValid(p) ==
    \A i \in 1..Len(p) : p[i] = "*" => (i > 1 /\ p[i - 1] # "*")

RECURSIVE MatchHere(_, _, _, _)
\* p from position i matches a prefix of s from position j
MatchHere(p, i, s, j) ==
    IF i > Len(p) THEN TRUE
    ELSE IF i + 1 <= Len(p) /\ p[i + 1] = "*"
    THEN \/ MatchHere(p, i + 2, s, j)
         \/ (j <= Len(s) /\ s[j] = p[i] /\ MatchHere(p, i, s, j + 1))
    ELSE j <= Len(s) /\ s[j] = p[i] /\ MatchHere(p, i + 1, s, j + 1)

RegExpTest(p, s) == \E j \in 1..(Len(s) + 1) : MatchHere(p, 1, s, j)

(***************************************************************************)
(* api-spy.ts: matchesFilter.  The result is "accept" (true), "reject"     *)
(* (false) or "throw" (new RegExp raised).                                 *)
(***************************************************************************)
Includes(list, x) == \E i \in 1..Len(list) : list[i] = x

RECURSIVE ExcludeLoop(_, _)
\* the for loop over filter.excludePaths: "hit", "throw" or "none"
ExcludeLoop(patterns, path) ==
    IF patterns = <<>> THEN "none"
    ELSE IF ~RegExpValid(patterns[1]) THEN "throw"
    ELSE IF RegExpTest(patterns[1], path) THEN "hit"
    ELSE ExcludeLoop(Tail(patterns), path)

RECURSIVE IncludeLoop(_, _)
\* the for loop over filter.includePaths: "hit" (matches = true, break),
\* "throw" or "none"
IncludeLoop(patterns, path) ==
    IF patterns = <<>> THEN "none"
    ELSE IF ~RegExpValid(patterns[1]) THEN "throw"
    ELSE IF RegExpTest(patterns[1], path) THEN "hit"
    ELSE IncludeLoop(Tail(patterns), path)

MethodRule(method, filter) ==
    Len(filter.methods) > 0 => Includes(filter.methods, method)

\* the include-path rule, with inc the outcome of the loop
IncludeRule(inc) ==
    IF inc = "throw" THEN "throw"
    ELSE IF inc = "none" THEN "reject"
    ELSE "accept"

\* the exclude-path rule, with ex the outcome of the loop, and what follows
ExcludeRule(ex, path, filter) ==
    IF ex = "throw" THEN "throw"
    ELSE IF ex = "hit" THEN "reject"
    ELSE IF Len(filter.includePaths) > 0
    THEN IncludeRule(IncludeLoop(filter.includePaths, path))
    ELSE "accept"

matchesFilter(method, path, filter) ==
    IF ~MethodRule(method, filter) THEN "reject"
    ELSE IF Len(filter.excludePaths) > 0
    THEN ExcludeRule(ExcludeLoop(filter.excludePaths, path), path, filter)
    ELSE ExcludeRule("none", path, filter)

(***************************************************************************)
(* Inputs of the model: the instance's filter configuration, the calls the *)
(* test makes, the responses the underlying client returns, the hooks the  *)
(* test registers and the context strings it sets.                         *)
(***************************************************************************)
Null == [t |-> "null", v |-> <<>>]

PathA == <<"/", "a">>
PathH == <<"/", "h">>

\* '*/h': a wildcard-style pattern, which new RegExp() refuses
StarSlashH == <<"*", "/", "h">>

\* the filter configurations an instance of the model is constructed with
FilterConfigs ==
    { [includePaths |-> <<PathA, StarSlashH>>, excludePaths |-> <<>>,
       methods |-> <<"GET", "POST">>],
      [includePaths |-> <<>>, excludePaths |-> <<PathH>>,
       methods |-> <<>>] }

\* {"a":1,"b":2}: cut inside a key, the re-parse throws
BodyCutInKey == JObj(<< <<<<"a">>, JNum(1)>>, <<<<"b">>, JNum(2)>> >>)

NoMethod == ""       \* options.method absent
NoHeaders == <<>>    \* options.headers absent

CallInputs ==
    { [prop |-> "get", url |-> <<Origin>> \o PathA,
       options |-> [method |-> NoMethod, headers |-> NoHeaders, data |-> Undefined]],
      [prop |-> "post", url |-> PathA,
       options |-> [method |-> NoMethod, headers |-> NoHeaders, data |-> BodyCutInKey]],
      [prop |-> "fetch", url |-> PathA,
       options |-> [method |-> "delete", headers |-> NoHeaders,
                    data |-> JStr(<<"a", "b">>)]],
      [prop |-> "fetch", url |-> PathH,
       options |-> [method |-> NoMethod, headers |-> NoHeaders, data |-> Undefined]] }

\* what the underlying client resolves with: status and body text
Responses ==
    { [status |-> 200, text |-> <<"o", "k">>, headers |-> NoHeaders],
      [status |-> 500, text |-> JsonStringify(BodyCutInKey), headers |-> NoHeaders] }

HookKinds == {"ok", "throw"}      \* a hook returns, or throws
Contexts == {<<>>, <<"A">>}       \* arguments of addContext

Calls == 1..MaxCalls

(***************************************************************************)
(* String.prototype.toUpperCase on the method names of the model.          *)
(***************************************************************************)
toUpperCase(m) ==
    CASE m \in {"get", "GET"} -> "GET"
      [] m \in {"post", "POST"} -> "POST"
      [] m \in {"put", "PUT"} -> "PUT"
      [] m \in {"patch", "PATCH"} -> "PATCH"
      [] m \in {"delete", "DELETE"} -> "DELETE"
      [] m \in {"head", "HEAD"} -> "HEAD"
      [] m \in {"options", "OPTIONS"} -> "OPTIONS"
      [] OTHER -> m

\* wrapper.ts: the effective method of an intercepted call
EffectiveMethod(prop, options) ==
    IF prop = "fetch"
    THEN (IF options.method # NoMethod THEN options.method ELSE "GET")
    ELSE toUpperCase(prop)

\* wrapper.ts: normalizeHeaders of a plain header object (or of none)
normalizeHeaders(headers) == headers

(***************************************************************************)
(* redact.ts.  Header objects are sequences of <<name, value>> pairs, and  *)
(* a redact configuration is [headers, bodyFields, replacement].           *)
(***************************************************************************)
UpperLetters ==
    <<"A", "B", "C", "D", "E", "F", "G", "H", "I", "J", "K", "L", "M",
      "N", "O", "P", "Q", "R", "S", "T", "U", "V", "W", "X", "Y", "Z">>

LowerLetters ==
    <<"a", "b", "c", "d", "e", "f", "g", "h", "i", "j", "k", "l", "m",
      "n", "o", "p", "q", "r", "s", "t", "u", "v", "w", "x", "y", "z">>

LowerChar(ch) ==
    IF \E i \in DOMAIN UpperLetters : UpperLetters[i] = ch
    THEN LowerLetters[CHOOSE i \in DOMAIN UpperLetters : UpperLetters[i] = ch]
    ELSE ch

RECURSIVE toLowerCase(_)
\* String.prototype.toLowerCase on a character sequence
toLowerCase(str) ==
    IF str = <<>> THEN <<>>
    ELSE <<LowerChar(Head(str))>> \o toLowerCase(Tail(str))

\* String.prototype.includes
StringIncludes(str, part) ==
    \E i \in 0..(Len(str) - Len(part)) : SubSeq(str, i + 1, i + Len(part)) = part

\* mutant: the names are compared as they are written
matchesHeaderExact(headerName, patterns) ==
    \E i \in DOMAIN patterns : headerName = patterns[i]

matchesHeader(headerName, patterns) ==
    \E i \in DOMAIN patterns : toLowerCase(headerName) = toLowerCase(patterns[i])

\* mutant: a key matches only when it equals a field name
ShouldRedactEqual(key, fieldsToRedact) ==
    \E i \in DOMAIN fieldsToRedact : toLowerCase(key) = toLowerCase(fieldsToRedact[i])

\* redactFields: `fieldsToRedact.some(...)` for one key
ShouldRedact(key, fieldsToRedact) ==
    \E i \in DOMAIN fieldsToRedact :
        \/ toLowerCase(key) = toLowerCase(fieldsToRedact[i])
        \/ StringIncludes(toLowerCase(key), toLowerCase(fieldsToRedact[i]))

RECURSIVE redactFields(_, _, _)
RECURSIVE RedactMembers(_, _, _)
RECURSIVE RedactItems(_, _, _)

\* the loop over Object.entries(obj)
RedactMembers(ms, fieldsToRedact, replacement) ==
    IF ms = <<>> THEN <<>>
    ELSE << <<ms[1][1],
              IF ShouldRedact(ms[1][1], fieldsToRedact) /\ ms[1][2].t = "string"
              THEN JStr(replacement)
              ELSE redactFields(ms[1][2], fieldsToRedact, replacement)>> >>
         \o RedactMembers(Tail(ms), fieldsToRedact, replacement)

\* obj.map(item => redactFields(item, ...))
RedactItems(xs, fieldsToRedact, replacement) ==
    IF xs = <<>> THEN <<>>
    ELSE <<redactFields(xs[1], fieldsToRedact, replacement)>>
         \o RedactItems(Tail(xs), fieldsToRedact, replacement)

redactFields(obj, fieldsToRedact, replacement) ==
    CASE obj.t = "array" -> JArr(RedactItems(obj.v, fieldsToRedact, replacement))
      [] obj.t = "object" -> JObj(RedactMembers(obj.v, fieldsToRedact, replacement))
      [] OTHER -> obj

RECURSIVE redactHeadersMarking(_, _, _)
\* mutant: the replacement is put in front of the value it hides
redactHeadersMarking(headers, headersToRedact, replacement) ==
    IF headers = <<>> THEN <<>>
    ELSE << <<headers[1][1],
              IF matchesHeader(headers[1][1], headersToRedact)
              THEN replacement \o headers[1][2] ELSE headers[1][2]>> >>
         \o redactHeadersMarking(Tail(headers), headersToRedact, replacement)

RECURSIVE redactHeaders(_, _, _)
redactHeaders(headers, headersToRedact, replacement) ==
    IF headers = <<>> THEN <<>>
    ELSE << <<headers[1][1],
              IF matchesHeader(headers[1][1], headersToRedact)
              THEN replacement ELSE headers[1][2]>> >>
         \o redactHeaders(Tail(headers), headersToRedact, replacement)

\* `body ? redactFields(body, ...) : undefined`
RedactedBody(body, config) ==
    IF Truthy(body)
    THEN redactFields(body, config.bodyFields, config.replacement)
    ELSE Undefined

redactRequest(request, config) ==
    [request EXCEPT
        !.headers = redactHeaders(@, config.headers, config.replacement),
        !.body = RedactedBody(@, config)]

redactResponse(response, config) ==
    [response EXCEPT
        !.headers = redactHeaders(@, config.headers, config.replacement),
        !.body = RedactedBody(@, config)]

(***************************************************************************)
(* Configurations (types.ts DEFAULT_CONFIG, config.ts mergeApiSpyConfig):  *)
(* the model keeps the report switches and the redact section, with two of *)
(* the default header names and two of the default body fields.            *)
(***************************************************************************)
HdrAuthorization ==
    <<"A", "u", "t", "h", "o", "r", "i", "z", "a", "t", "i", "o", "n">>
HdrCookie == <<"C", "o", "o", "k", "i", "e">>
FieldPassword == <<"p", "a", "s", "s", "w", "o", "r", "d">>
FieldToken == <<"t", "o", "k", "e", "n">>
Redacted == <<"[REDACTED]">>

DefaultRedact ==
    [headers |-> <<HdrAuthorization, HdrCookie>>,
     bodyFields |-> <<FieldPassword, FieldToken>>,
     replacement |-> Redacted]

DEFAULT_CONFIG ==
    [maxBodyLength |-> JNum(10000),
     htmlReport |-> [enabled |-> TRUE],
     jsonReport |-> [enabled |-> TRUE],
     redact |-> DefaultRedact]

(***************************************************************************)
(* State.                                                                  *)
(***************************************************************************)
VARIABLES
    filter,                \* ApiSpyInstance._config.filter
    entries,               \* ApiSpyInstance._entries
    paused,                \* ApiSpyInstance._paused
    context,               \* ApiSpyInstance._context
    onRequestCallbacks,    \* ApiSpyInstance._onRequestCallbacks
    onResponseCallbacks,   \* ApiSpyInstance._onResponseCallbacks
    onErrorCallbacks,      \* ApiSpyInstance._onErrorCallbacks
    calls,                 \* the intercepted calls of the wrapped client
    redact,                \* ApiSpyInstance._config.redact
    report,                \* what getEntriesForReport() last returned
    entriesFile,           \* the file at GlobalApiSpyStore._tempFilePath
    configFile,            \* the file playwright-api-spy-config.json
    runConfig,             \* the configuration the run's config file passes to withApiSpy
    procs,                 \* the processes of a run: the runner and the workers
    reporter,              \* the reporter's onEnd
    storeLog,              \* the operations on the store: see Logged
    peer                   \* the test's other ApiSpyInstance: see IdlePeer

vars == <<filter, entries, paused, context, onRequestCallbacks,
          onResponseCallbacks, onErrorCallbacks, calls, redact, report,
          entriesFile, configFile, runConfig, procs, reporter, storeLog,
          peer>>

\* what no operation of the instance but getEntriesForReport changes
reportVars == <<redact, report, peer>>

storeVars == <<entriesFile, configFile, runConfig, procs, reporter, storeLog>>

instanceVars == <<filter, entries, paused, context, onRequestCallbacks,
                  onResponseCallbacks, onErrorCallbacks>>

None == [t |-> "none", v |-> <<>>]

\* the settlement of a promise
Unsettled == [kind |-> "pending", value |-> None]
Resolved(r) == [kind |-> "resolved", value |-> r]
Rejected(e) == [kind |-> "rejected", value |-> e]

\* a call that the test has not issued yet
IdleCall ==
    [pc |-> "idle",
     input |-> None,
     request |-> Null,            \* captureRequest's local `request`
     capturedRequest |-> Null,    \* the wrapper's `capturedRequest`
     pending |-> None,            \* the error caught by the wrapper
     k |-> 0,                     \* hooks of the running loop invoked so far
     underlying |-> <<>>,         \* invocations of the original method
     outcome |-> Unsettled,       \* how the original method settled
     result |-> Unsettled,        \* how the wrapped call settled
     hooks |-> <<>>,              \* hook invocations made for this call
     pushes |-> 0,                \* entries appended for this call
     pausedAtCall |-> FALSE]      \* _paused when the call was issued

\* a file that does not exist, and a file holding a text
FileAbsent == [exists |-> FALSE, data |-> <<>>]
FileOf(text) == [exists |-> TRUE, data |-> text]

\* the runner process and the worker processes of a run
Workers == 1..MaxWorkers
Runner == 0
Procs == {Runner} \cup Workers

\* a process that has not started: its GlobalApiSpyStore singleton would be
\* created with _config = DEFAULT_CONFIG
OffProc ==
    [pc |-> "off",
     config |-> DEFAULT_CONFIG,   \* GlobalApiSpyStore._config
     spyRedact |-> None,          \* the redact section of the fixture's instance
     spyEntries |-> <<>>,         \* the fixture instance's _entries
     batch |-> <<>>,              \* the argument of addEntries
     existing |-> <<>>]           \* addEntries' existingEntries

IdleReporter ==
    [pc |-> "idle", impl |-> None, config |-> None, entries |-> <<>>,
     json |-> "none", html |-> "none"]

\* a second instance of the same test, as its constructor leaves it, with
\* the intercepted calls of the client it wraps.  The variables above
\* describe the instance the test is working with, peer the other one.
IdlePeer ==
    [id |-> 2,
     filter |-> [includePaths |-> <<>>, excludePaths |-> <<>>, methods |-> <<>>],
     entries |-> <<>>,
     paused |-> FALSE,
     context |-> Undefined,
     onRequestCallbacks |-> <<>>,
     onResponseCallbacks |-> <<>>,
     onErrorCallbacks |-> <<>>,
     calls |-> [c \in Calls |-> IdleCall]]

\* no run is under way: the specifications of a single instance
NoRun ==
    /\ peer = IdlePeer
    /\ entriesFile = FileAbsent
    /\ configFile = FileAbsent
    /\ runConfig = DEFAULT_CONFIG
    /\ procs = [p \in Procs |-> OffProc]
    /\ reporter = IdleReporter
    /\ storeLog = [op |-> "none", emptied |-> FALSE, batches |-> <<>>]

Init ==
    /\ redact = DefaultRedact
    /\ report = <<>>
    /\ NoRun
    /\ filter \in FilterConfigs
    /\ entries = <<>>
    /\ paused = FALSE
    /\ context = Undefined
    /\ onRequestCallbacks = <<>>
    /\ onResponseCallbacks = <<>>
    /\ onErrorCallbacks = <<>>
    /\ calls = [c \in Calls |-> IdleCall]

\* the errors that can be thrown
NetworkError(c) == [src |-> "underlying", call |-> c, kind |-> "", idx |-> 0]
HookError(kind, i) == [src |-> "hook", call |-> 0, kind |-> kind, idx |-> i]
RegExpError == [src |-> "RegExp", call |-> 0, kind |-> "", idx |-> 0]
JsonError == [src |-> "JSON.parse", call |-> 0, kind |-> "", idx |-> 0]

HookCall(kind, i, req, arg) == [kind |-> kind, idx |-> i, request |-> req, arg |-> arg]

(***************************************************************************)
(* ApiSpyInstance: the synchronous operations the test calls.              *)
(***************************************************************************)
addContext(text) ==
    /\ context' = JStr(text)
    /\ UNCHANGED <<reportVars, storeVars>>
    /\ UNCHANGED <<filter, entries, paused, onRequestCallbacks,
                   onResponseCallbacks, onErrorCallbacks, calls>>

clearContext ==
    /\ context' = Undefined
    /\ UNCHANGED <<reportVars, storeVars>>
    /\ UNCHANGED <<filter, entries, paused, onRequestCallbacks,
                   onResponseCallbacks, onErrorCallbacks, calls>>

pause ==
    /\ paused' = TRUE
    /\ UNCHANGED <<reportVars, storeVars>>
    /\ UNCHANGED <<filter, entries, context, onRequestCallbacks,
                   onResponseCallbacks, onErrorCallbacks, calls>>

resume ==
    /\ paused' = FALSE
    /\ UNCHANGED <<reportVars, storeVars>>
    /\ UNCHANGED <<filter, entries, context, onRequestCallbacks,
                   onResponseCallbacks, onErrorCallbacks, calls>>

\* mutant: the entry list is shared by the instances
clearShared ==
    /\ entries' = <<>>
    /\ peer' = [peer EXCEPT !.entries = <<>>]
    /\ UNCHANGED <<redact, report, storeVars>>
    /\ UNCHANGED <<filter, paused, context, onRequestCallbacks,
                   onResponseCallbacks, onErrorCallbacks, calls>>

\* mutant: clear() also resets the paused flag
clearAndResume ==
    /\ entries' = <<>>
    /\ paused' = FALSE
    /\ UNCHANGED <<reportVars, storeVars>>
    /\ UNCHANGED <<filter, context, onRequestCallbacks,
                   onResponseCallbacks, onErrorCallbacks, calls>>

clear ==
    /\ entries' = <<>>
    /\ UNCHANGED <<reportVars, storeVars>>
    /\ UNCHANGED <<filter, paused, context, onRequestCallbacks,
                   onResponseCallbacks, onErrorCallbacks, calls>>

HookCount ==
    Len(onRequestCallbacks) + Len(onResponseCallbacks) + Len(onErrorCallbacks)

onRequest(callback) ==
    /\ HookCount < MaxHooks
    /\ onRequestCallbacks' = Append(onRequestCallbacks, callback)
    /\ UNCHANGED <<reportVars, storeVars>>
    /\ UNCHANGED <<filter, entries, paused, context, onResponseCallbacks,
                   onErrorCallbacks, calls>>

onResponse(callback) ==
    /\ HookCount < MaxHooks
    /\ onResponseCallbacks' = Append(onResponseCallbacks, callback)
    /\ UNCHANGED <<reportVars, storeVars>>
    /\ UNCHANGED <<filter, entries, paused, context, onRequestCallbacks,
                   onErrorCallbacks, calls>>

onError(callback) ==
    /\ HookCount < MaxHooks
    /\ onErrorCallbacks' = Append(onErrorCallbacks, callback)
    /\ UNCHANGED <<reportVars, storeVars>>
    /\ UNCHANGED <<filter, entries, paused, context, onRequestCallbacks,
                   onResponseCallbacks, calls>>

(***************************************************************************)
(* ApiSpyInstance.captureRequest, up to its first await.  The result is    *)
(* the call's new record: the position "invoke" means captureRequest has   *)
(* returned (a request or null), "reqHook" that it awaits its k-th hook,   *)
(* "done" that it threw, which makes the wrapped call reject.              *)
(***************************************************************************)
\* mutant: the context is stamped whenever it is defined
RequestMetadataDefined(ctx) ==
    IF ctx # Undefined THEN [context |-> ctx] ELSE Undefined

RequestMetadata(ctx) ==
    IF Truthy(ctx) THEN [context |-> ctx] ELSE Undefined

BuildRequest(c, httpMethod, url, path, options, body) ==
    [ref |-> c,       \* the identity of the request object
     method |-> httpMethod,
     url |-> url,
     path |-> path,
     headers |-> options.headers,
     body |-> body,
     metadata |-> RequestMetadata(context)]

\* mutant: the first request hook is started and not awaited
RequestCallbacksUnawaited(call, request) ==
    IF onRequestCallbacks = <<>>
    THEN [call EXCEPT !.pc = "invoke", !.request = request,
                      !.capturedRequest = request]
    ELSE [call EXCEPT !.pc = "invoke", !.request = request, !.k = 1,
                      !.capturedRequest = request,
                      !.hooks = Append(@, HookCall("request", 1, request, None))]

\* the loop over _onRequestCallbacks, up to the first await, and the return
RequestCallbacks(call, request) ==
    IF onRequestCallbacks = <<>>
    THEN [call EXCEPT !.pc = "invoke", !.request = request,
                      !.capturedRequest = request]
    ELSE IF onRequestCallbacks[1] = "throw"
    THEN [call EXCEPT !.pc = "done", !.request = request,
                      !.hooks = Append(@, HookCall("request", 1, request, None)),
                      !.result = Rejected(HookError("request", 1))]
    ELSE [call EXCEPT !.pc = "reqHook", !.request = request, !.k = 1,
                      !.hooks = Append(@, HookCall("request", 1, request, None))]

\* `request.body = truncateBody(...)`, with cut the outcome of truncateBody
TruncatedRequest(c, call, httpMethod, url, path, options, cut) ==
    IF ~cut.ok
    THEN [call EXCEPT !.pc = "done", !.result = Rejected(JsonError)]
    ELSE RequestCallbacks(call,
             BuildRequest(c, httpMethod, url, path, options, cut.val))

\* the request record, with body the parsed options.data
NewRequest(c, call, httpMethod, url, path, options, body) ==
    IF Truthy(body)
    THEN TruncatedRequest(c, call, httpMethod, url, path, options,
                          truncateBody(body, BodyLimit))
    ELSE RequestCallbacks(call,
             BuildRequest(c, httpMethod, url, path, options, body))

\* `if (!matchesFilter(...)) return null`, with verdict the filter's outcome
Filtered(c, call, httpMethod, url, path, options, verdict) ==
    IF verdict = "throw"
    THEN [call EXCEPT !.pc = "done", !.result = Rejected(RegExpError)]
    ELSE IF verdict = "reject"
    THEN [call EXCEPT !.pc = "invoke"]
    ELSE NewRequest(c, call, httpMethod, url, path, options,
             IF Truthy(options.data) THEN parseBody(options.data) ELSE Undefined)

\* captureRequest past the `if (this._paused)` check
captureUnpaused(c, call, httpMethod, url, path, options) ==
    Filtered(c, call, httpMethod, url, path, options,
             matchesFilter(httpMethod, path, filter))

\* mutant: the paused flag is not consulted
captureRequestPauseIgnored(c, call, method, url, options) ==
    captureUnpaused(c, call, toUpperCase(method), url, extractPath(url), options)

captureRequest(c, call, method, url, options) ==
    IF paused THEN [call EXCEPT !.pc = "invoke"]
    ELSE captureUnpaused(c, call, toUpperCase(method), url, extractPath(url),
                         options)

(***************************************************************************)
(* ApiSpyInstance.captureError up to its first await, followed by the      *)
(* wrapper's `throw error`.  The result is the call's new record and the   *)
(* new entry list.                                                         *)
(***************************************************************************)
\* mutant: the error descriptor is left out of the entry
ErrorEntryBare(request, error) ==
    [request |-> request, response |-> Undefined, error |-> Undefined]

ErrorEntry(request, error) ==
    [request |-> request, response |-> Undefined,
     error |-> [message |-> error, stack |-> error]]

\* the loop over _onErrorCallbacks, up to the first await
ErrorCallbacks(call, request, error) ==
    IF onErrorCallbacks = <<>>
    THEN [call EXCEPT !.pc = "done", !.pushes = @ + 1,
                      !.result = Rejected(error)]
    ELSE IF onErrorCallbacks[1] = "throw"
    THEN [call EXCEPT !.pc = "done", !.pushes = @ + 1,
                      !.hooks = Append(@, HookCall("error", 1, request, error)),
                      !.result = Rejected(HookError("error", 1))]
    ELSE [call EXCEPT !.pc = "errHook", !.k = 1, !.pending = error,
                      !.pushes = @ + 1,
                      !.hooks = Append(@, HookCall("error", 1, request, error))]

\* mutant: a paused instance records no error
captureErrorUnlessPaused(call, ents, request, error) ==
    IF paused
    THEN [call |-> [call EXCEPT !.pc = "done", !.result = Rejected(error)],
          entries |-> ents]
    ELSE [call |-> ErrorCallbacks(call, request, error),
          entries |-> Append(ents, ErrorEntry(request, error))]

captureError(call, ents, request, error) ==
    [call |-> ErrorCallbacks(call, request, error),
     entries |-> Append(ents, ErrorEntry(request, error))]

\* mutant: the catch block calls captureError without its guard
WrapperCatchUnguarded(call, ents, error) ==
    captureError(call, ents, call.capturedRequest, error)

\* the wrapper's catch block: `if (capturedRequest) await captureError(...)`
\* and `throw error`
WrapperCatch(call, ents, error) ==
    IF call.capturedRequest # Null
    THEN captureError(call, ents, call.capturedRequest, error)
    ELSE [call |-> [call EXCEPT !.pc = "done", !.result = Rejected(error)],
          entries |-> ents]

(***************************************************************************)
(* The wrapper's success branch: decode the response body, then            *)
(* ApiSpyInstance.captureResponse up to its first await.  The position     *)
(* "catch" means an exception was thrown inside the wrapper's try block.   *)
(***************************************************************************)
\* response.json(), falling back to response.text()
DecodedBody(text, json) == IF json.ok THEN json.val ELSE JStr(text)

ResponseBody(response) == DecodedBody(response.text, JsonParse(response.text))

CapturedResponse(response, body) ==
    [status |-> response.status, headers |-> response.headers, body |-> body]

ResponseEntry(request, capturedResponse) ==
    [request |-> request, response |-> capturedResponse, error |-> Undefined]

\* the loop over _onResponseCallbacks, up to the first await
ResponseCallbacks(call, request, response, capturedResponse) ==
    IF onResponseCallbacks = <<>>
    THEN [call EXCEPT !.pc = "done", !.pushes = @ + 1,
                      !.result = Resolved(response)]
    ELSE IF onResponseCallbacks[1] = "throw"
    THEN [call EXCEPT !.pc = "catch", !.pushes = @ + 1,
                      !.pending = HookError("response", 1),
                      !.hooks = Append(@, HookCall("response", 1, request,
                                                   capturedResponse))]
    ELSE [call EXCEPT !.pc = "respHook", !.k = 1, !.pushes = @ + 1,
                      !.hooks = Append(@, HookCall("response", 1, request,
                                                   capturedResponse))]

\* mutant: the hooks run before the entry is in the list
PushResponseLate(call, ents, request, response, capturedResponse) ==
    [call |-> ResponseCallbacks(call, request, response, capturedResponse),
     entries |-> ents]

\* mutant: the entry is put at the front of the list
PushResponseFront(call, ents, request, response, capturedResponse) ==
    [call |-> ResponseCallbacks(call, request, response, capturedResponse),
     entries |-> <<ResponseEntry(request, capturedResponse)>> \o ents]

\* `this._entries.push(entry)` and what follows it
PushResponse(call, ents, request, response, capturedResponse) ==
    [call |-> ResponseCallbacks(call, request, response, capturedResponse),
     entries |-> Append(ents, ResponseEntry(request, capturedResponse))]

\* `capturedResponse.body = truncateBody(...)`, with cut its outcome
TruncatedResponse(call, ents, request, response, cut) ==
    IF ~cut.ok
    THEN [call |-> [call EXCEPT !.pc = "catch", !.pending = JsonError],
          entries |-> ents]
    ELSE PushResponse(call, ents, request, response,
                      CapturedResponse(response, cut.val))

\* the response record, with body the parsed response body
NewResponse(call, ents, request, response, body) ==
    IF Truthy(body)
    THEN TruncatedResponse(call, ents, request, response,
                           truncateBody(body, BodyLimit))
    ELSE PushResponse(call, ents, request, response,
                      CapturedResponse(response, body))

\* captureResponse(request, {status, headers, body}, duration); response is
\* the client's response object, body the decoded response body
captureResponse(call, ents, request, response, body) ==
    NewResponse(call, ents, request, response,
                IF Truthy(body) THEN parseBody(body) ELSE Undefined)

\* the wrapper's success branch: `if (capturedRequest) await
\* captureResponse(...)` and `return response`
WrapperSuccess(call, ents, response) ==
    IF call.capturedRequest # Null
    THEN captureResponse(call, ents, call.capturedRequest, response,
                         ResponseBody(response))
    ELSE [call |-> [call EXCEPT !.pc = "done", !.result = Resolved(response)],
          entries |-> ents]

(***************************************************************************)
(* wrapper.ts: the steps of one intercepted call.  A step runs from one    *)
(* await to the next.                                                      *)
(***************************************************************************)
\* the original method is called with the caller's arguments
InvokeOriginal(call) ==
    [call EXCEPT !.pc = "waiting",
                 !.underlying = Append(@, [prop |-> call.input.prop,
                                           url |-> call.input.url,
                                           options |-> call.input.options])]

\* the test calls an intercepted method
Call(c, input) ==
    /\ calls[c].pc = "idle"
    /\ \A d \in Calls : d < c => calls[d].pc # "idle"
    /\ calls' = [calls EXCEPT ![c] =
          captureRequest(c,
              [IdleCall EXCEPT !.input = input, !.pausedAtCall = paused],
              EffectiveMethod(input.prop, input.options), input.url,
              [headers |-> normalizeHeaders(input.options.headers),
               data |-> input.options.data])]
    /\ UNCHANGED <<reportVars, storeVars>>
    /\ UNCHANGED instanceVars

\* a request hook has settled: the loop goes on, or captureRequest returns
\* and the original method is called
RequestHookDone(c) ==
    /\ calls[c].pc = "reqHook"
    /\ LET call == calls[c]
           next == call.k + 1
       IN calls' = [calls EXCEPT ![c] =
            IF next <= Len(onRequestCallbacks)
            THEN IF onRequestCallbacks[next] = "throw"
                 THEN [call EXCEPT !.pc = "done",
                         !.hooks = Append(@, HookCall("request", next,
                                                      call.request, None)),
                         !.result = Rejected(HookError("request", next))]
                 ELSE [call EXCEPT !.k = next,
                         !.hooks = Append(@, HookCall("request", next,
                                                      call.request, None))]
            ELSE InvokeOriginal([call EXCEPT !.capturedRequest = call.request])]
    /\ UNCHANGED <<reportVars, storeVars>>
    /\ UNCHANGED instanceVars

\* captureRequest has returned: the original method is called
Invoke(c) ==
    /\ calls[c].pc = "invoke"
    /\ calls' = [calls EXCEPT ![c] = InvokeOriginal(calls[c])]
    /\ UNCHANGED <<reportVars, storeVars>>
    /\ UNCHANGED instanceVars

\* the original method resolves
Resolve(c, response) ==
    /\ calls[c].pc = "waiting"
    /\ LET call == [calls[c] EXCEPT !.outcome = Resolved(response)]
           r == WrapperSuccess(call, entries, response)
       IN /\ calls' = [calls EXCEPT ![c] = r.call]
          /\ entries' = r.entries
    /\ UNCHANGED <<reportVars, storeVars>>
    /\ UNCHANGED <<filter, paused, context, onRequestCallbacks,
                   onResponseCallbacks, onErrorCallbacks>>

\* the original method rejects
Reject(c) ==
    /\ calls[c].pc = "waiting"
    /\ LET call == [calls[c] EXCEPT !.outcome = Rejected(NetworkError(c))]
           r == WrapperCatch(call, entries, NetworkError(c))
       IN /\ calls' = [calls EXCEPT ![c] = r.call]
          /\ entries' = r.entries
    /\ UNCHANGED <<reportVars, storeVars>>
    /\ UNCHANGED <<filter, paused, context, onRequestCallbacks,
                   onResponseCallbacks, onErrorCallbacks>>

\* a response hook has settled: the loop goes on, or the wrapped call
\* returns the response
ResponseHookDone(c) ==
    /\ calls[c].pc = "respHook"
    /\ LET call == calls[c]
           next == call.k + 1
       IN calls' = [calls EXCEPT ![c] =
            IF next <= Len(onResponseCallbacks)
            THEN IF onResponseCallbacks[next] = "throw"
                 THEN [call EXCEPT !.pc = "catch",
                         !.pending = HookError("response", next),
                         !.hooks = Append(@, HookCall("response", next,
                                      call.capturedRequest, call.hooks[Len(call.hooks)].arg))]
                 ELSE [call EXCEPT !.k = next,
                         !.hooks = Append(@, HookCall("response", next,
                                      call.capturedRequest, call.hooks[Len(call.hooks)].arg))]
            ELSE [call EXCEPT !.pc = "done", !.result = Resolved(call.outcome.value)]]
    /\ UNCHANGED <<reportVars, storeVars>>
    /\ UNCHANGED instanceVars

\* an exception thrown inside the try block reaches the catch block
Catch(c) ==
    /\ calls[c].pc = "catch"
    /\ LET r == WrapperCatch(calls[c], entries, calls[c].pending)
       IN /\ calls' = [calls EXCEPT ![c] = r.call]
          /\ entries' = r.entries
    /\ UNCHANGED <<reportVars, storeVars>>
    /\ UNCHANGED <<filter, paused, context, onRequestCallbacks,
                   onResponseCallbacks, onErrorCallbacks>>

\* an error hook has settled: the loop goes on, or the wrapper rethrows
ErrorHookDone(c) ==
    /\ calls[c].pc = "errHook"
    /\ LET call == calls[c]
           next == call.k + 1
       IN calls' = [calls EXCEPT ![c] =
            IF next <= Len(onErrorCallbacks)
            THEN IF onErrorCallbacks[next] = "throw"
                 THEN [call EXCEPT !.pc = "done",
                         !.hooks = Append(@, HookCall("error", next,
                                      call.capturedRequest, call.pending)),
                         !.result = Rejected(HookError("error", next))]
                 ELSE [call EXCEPT !.k = next,
                         !.hooks = Append(@, HookCall("error", next,
                                      call.capturedRequest, call.pending))]
            ELSE [call EXCEPT !.pc = "done", !.result = Rejected(call.pending)]]
    /\ UNCHANGED <<reportVars, storeVars>>
    /\ UNCHANGED instanceVars

Next ==
    \/ \E c \in Calls, input \in CallInputs : Call(c, input)
    \/ \E c \in Calls : RequestHookDone(c)
    \/ \E c \in Calls : Invoke(c)
    \/ \E c \in Calls, response \in Responses : Resolve(c, response)
    \/ \E c \in Calls : Reject(c)
    \/ \E c \in Calls : ResponseHookDone(c)
    \/ \E c \in Calls : Catch(c)
    \/ \E c \in Calls : ErrorHookDone(c)
    \/ \E text \in Contexts : addContext(text)
    \/ clearContext
    \/ pause
    \/ resume
    \/ clear
    \/ \E callback \in HookKinds : onRequest(callback)
    \/ \E callback \in HookKinds : onResponse(callback)
    \/ \E callback \in HookKinds : onError(callback)

Spec == Init /\ [][Next]_vars

(***************************************************************************)
(* A test that awaits each call before its next statement, registers no    *)
(* hook and only pauses, resumes and makes calls the filter accepts.       *)
(***************************************************************************)
Quiet == \A c \in Calls : calls[c].pc \in {"idle", "done"}

FilterAccepts(input) ==
    matchesFilter(toUpperCase(EffectiveMethod(input.prop, input.options)),
                  extractPath(input.url), filter) = "accept"

AwaitedCall(c, input) == Quiet /\ FilterAccepts(input) /\ Call(c, input)

NextSeq ==
    \/ \E c \in Calls, input \in CallInputs : AwaitedCall(c, input)
    \/ \E c \in Calls : Invoke(c)
    \/ \E c \in Calls, response \in Responses : Resolve(c, response)
    \/ \E c \in Calls : Reject(c)
    \/ \E c \in Calls : Catch(c)
    \/ (Quiet /\ pause)
    \/ (Quiet /\ resume)

SpecSeq == Init /\ [][NextSeq]_vars

(***************************************************************************)
(* The filter decision on its own: an instance constructed with any filter *)
(* over a few patterns, no hook and no body, and calls that reach          *)
(* captureRequest.                                                         *)
(***************************************************************************)
ProbePatterns == {PathA, PathH, StarSlashH, <<"/">>}

PatternLists ==
    {<<>>} \cup {<<p>> : p \in ProbePatterns}
           \cup {<<p, q>> : p \in ProbePatterns, q \in ProbePatterns}

MethodLists == {<<>>, <<"GET">>, <<"POST", "DELETE">>}

ProbeFilters ==
    [includePaths : PatternLists, excludePaths : PatternLists,
     methods : MethodLists]

ProbeInputs ==
    { [prop |-> p, url |-> u,
       options |-> [method |-> m, headers |-> NoHeaders, data |-> Undefined]] :
      p \in {"get", "fetch"}, u \in {PathA, <<Origin>> \o PathH},
      m \in {NoMethod, "delete"} }

InitFilter ==
    /\ redact = DefaultRedact
    /\ report = <<>>
    /\ NoRun
    /\ filter \in ProbeFilters
    /\ entries = <<>>
    /\ paused = FALSE
    /\ context = Undefined
    /\ onRequestCallbacks = <<>>
    /\ onResponseCallbacks = <<>>
    /\ onErrorCallbacks = <<>>
    /\ calls = [c \in Calls |-> IdleCall]

NextFilter == \E c \in Calls, input \in ProbeInputs : Call(c, input)

SpecFilter == InitFilter /\ [][NextFilter]_vars

(***************************************************************************)
(* api-spy.ts: getEntriesForReport, and a test that awaits its calls, may  *)
(* register a response hook and reads the report.  Its requests and        *)
(* responses carry headers and body fields that the configurations name.   *)
(***************************************************************************)
\* mutant: only the request is redacted
ReportEntryRequestOnly(entry, config) ==
    [request |-> redactRequest(entry.request, config),
     response |-> entry.response,
     error |-> entry.error]

ReportEntry(entry, config) ==
    [request |-> redactRequest(entry.request, config),
     response |-> IF entry.response # Undefined
                  THEN redactResponse(entry.response, config)
                  ELSE Undefined,
     error |-> entry.error]

RECURSIVE EntriesForReport(_, _)
\* this._entries.map(...)
EntriesForReport(ents, config) ==
    IF ents = <<>> THEN <<>>
    ELSE <<ReportEntry(ents[1], config)>> \o EntriesForReport(Tail(ents), config)

getEntriesForReport ==
    /\ report' = EntriesForReport(entries, redact)
    /\ UNCHANGED <<filter, entries, paused, context, onRequestCallbacks,
                   onResponseCallbacks, onErrorCallbacks, calls, redact>>
    /\ UNCHANGED <<storeVars, peer>>

HdrAuth == <<"A", "u", "t", "h">>
HdrX == <<"X">>
FieldK == <<"k">>

RedactConfigs ==
    { [headers |-> <<toLowerCase(HdrAuth)>>, bodyFields |-> <<FieldK>>,
       replacement |-> Redacted],
      [headers |-> <<>>, bodyFields |-> <<>>, replacement |-> Redacted] }

\* {"k":"s"} and [{"Ak":"s"}]
BodyWithField == JObj(<< <<FieldK, JStr(<<"s">>)>> >>)
BodyWithFieldInArray == JArr(<<JObj(<< <<<<"A", "k">>, JStr(<<"s">>)>> >>)>>)

ReportInputs ==
    { [prop |-> "post", url |-> PathA,
       options |-> [method |-> NoMethod,
                    headers |-> << <<HdrAuth, <<"t">>>>, <<HdrX, <<"v">>>> >>,
                    data |-> BodyWithField]],
      [prop |-> "get", url |-> PathA,
       options |-> [method |-> NoMethod, headers |-> NoHeaders,
                    data |-> BodyWithFieldInArray]] }

ReportResponses ==
    { [status |-> 200, text |-> JsonStringify(BodyWithField),
       headers |-> << <<toLowerCase(HdrAuth), <<"c">>>> >>],
      [status |-> 200, text |-> <<"o", "k">>, headers |-> NoHeaders] }

InitReport ==
    /\ redact \in RedactConfigs
    /\ report = <<>>
    /\ NoRun
    /\ filter = [includePaths |-> <<>>, excludePaths |-> <<PathH>>, methods |-> <<>>]
    /\ entries = <<>>
    /\ paused = FALSE
    /\ context = Undefined
    /\ onRequestCallbacks = <<>>
    /\ onResponseCallbacks = <<>>
    /\ onErrorCallbacks = <<>>
    /\ calls = [c \in Calls |-> IdleCall]

NextReport ==
    \/ \E c \in Calls, input \in ReportInputs : AwaitedCall(c, input)
    \/ \E c \in Calls : Invoke(c)
    \/ \E c \in Calls, response \in ReportResponses : Resolve(c, response)
    \/ \E c \in Calls : Reject(c)
    \/ \E c \in Calls : ResponseHookDone(c)
    \/ onResponse("ok")
    \/ getEntriesForReport

SpecReport == InitReport /\ [][NextReport]_vars

(***************************************************************************)
(* GlobalApiSpyStore (api-spy.ts).  A file is [exists, data] with data the *)
(* JSON text it holds.  Captured entries and configurations are written as *)
(* JSON values: the conversions below build the value JSON.stringify sees. *)
(***************************************************************************)
Key(word) == <<word>>

\* the value of member `key` of an object, undefined when it has none
Member(obj, key) ==
    IF \E i \in DOMAIN obj.v : obj.v[i][1] = key
    THEN obj.v[CHOOSE i \in DOMAIN obj.v : obj.v[i][1] = key][2]
    ELSE Undefined

RECURSIVE HeaderMembers(_)
\* a Record<string, string> of headers as the members of an object
HeaderMembers(headers) ==
    IF headers = <<>> THEN <<>>
    ELSE << <<headers[1][1], JStr(headers[1][2])>> >> \o HeaderMembers(Tail(headers))

\* CapturedRequest: id, method, url, path, headers, body (timestamp,
\* testInfo and metadata are not followed by the model of the store)
RequestValue(request) ==
    JObj(<< <<Key("id"), JNum(request.ref)>>,
            <<Key("method"), JStr(<<request.method>>)>>,
            <<Key("url"), JStr(request.url)>>,
            <<Key("path"), JStr(request.path)>>,
            <<Key("headers"), JObj(HeaderMembers(request.headers))>>,
            <<Key("body"), request.body>> >>)

\* CapturedResponse: status, headers, body
ResponseValue(response) ==
    JObj(<< <<Key("status"), JNum(response.status)>>,
            <<Key("headers"), JObj(HeaderMembers(response.headers))>>,
            <<Key("body"), response.body>> >>)

\* CapturedEntry.error: { message, stack }
ErrorValue(error) ==
    JObj(<< <<Key("message"), JStr(<<error.message.src>>)>>,
            <<Key("stack"), JStr(<<error.stack.src>>)>> >>)

\* CapturedEntry: request, response?, error?
EntryValue(entry) ==
    JObj(<< <<Key("request"), RequestValue(entry.request)>>,
            <<Key("response"), IF entry.response = Undefined THEN Undefined
                               ELSE ResponseValue(entry.response)>>,
            <<Key("error"), IF entry.error = Undefined THEN Undefined
                            ELSE ErrorValue(entry.error)>> >>)

RECURSIVE EntryValues(_)
EntryValues(ents) ==
    IF ents = <<>> THEN <<>>
    ELSE <<EntryValue(ents[1])>> \o EntryValues(Tail(ents))

RECURSIVE StringItems(_)
\* a string[] as the items of an array
StringItems(strs) ==
    IF strs = <<>> THEN <<>> ELSE <<JStr(strs[1])>> \o StringItems(Tail(strs))

RECURSIVE StringsOf(_)
StringsOf(items) ==
    IF items = <<>> THEN <<>> ELSE <<items[1].v>> \o StringsOf(Tail(items))

\* Required<ApiSpyConfig> as the value setConfig stringifies
ConfigValue(config) ==
    JObj(<< <<Key("maxBodyLength"), config.maxBodyLength>>,
            <<Key("htmlReport"),
              JObj(<< <<Key("enabled"), JBool(config.htmlReport.enabled)>> >>)>>,
            <<Key("jsonReport"),
              JObj(<< <<Key("enabled"), JBool(config.jsonReport.enabled)>> >>)>>,
            <<Key("redact"),
              JObj(<< <<Key("headers"), JArr(StringItems(config.redact.headers))>>,
                      <<Key("bodyFields"), JArr(StringItems(config.redact.bodyFields))>>,
                      <<Key("replacement"), JStr(config.redact.replacement)>> >>)>> >>)

\* the configuration that the parsed text of the config file is read as
ConfigOf(value) ==
    [maxBodyLength |-> Member(value, Key("maxBodyLength")),
     htmlReport |-> [enabled |-> Member(Member(value, Key("htmlReport")), Key("enabled")).v],
     jsonReport |-> [enabled |-> Member(Member(value, Key("jsonReport")), Key("enabled")).v],
     redact |->
        [headers |-> StringsOf(Member(Member(value, Key("redact")), Key("headers")).v),
         bodyFields |-> StringsOf(Member(Member(value, Key("redact")), Key("bodyFields")).v),
         replacement |-> Member(Member(value, Key("redact")), Key("replacement")).v]]

\* setConfig: the text written to the config file
ConfigText(config) == JsonStringify(ConfigValue(config))

ParsedConfigOr(r, config) == IF r.ok THEN ConfigOf(r.val) ELSE config

\* `get config()`: the parsed config file when it exists and parses, else
\* the process's own _config
GetConfig(file, config) ==
    IF file.exists THEN ParsedConfigOr(JsonParse(file.data), config) ELSE config

ParsedEntriesOr(r) == IF r.ok THEN r.val ELSE JArr(<<>>)

\* getAllEntries(): the parsed entries file, [] when it is absent or does
\* not parse
getAllEntries(file) ==
    IF file.exists THEN ParsedEntriesOr(JsonParse(file.data)) ELSE JArr(<<>>)

\* addEntries: `existingEntries`, [ok |-> FALSE] when JSON.parse throws
ReadExisting(file) ==
    IF file.exists THEN JsonParse(file.data) ELSE [ok |-> TRUE, val |-> JArr(<<>>)]

\* mutant: the batch is put in front of the existing entries
WriteBackFront(existing, batch) ==
    FileOf(JsonStringify(JArr(EntryValues(batch) \o existing)))

\* addEntries: `existingEntries.push(...entries)` and the writeFileSync
WriteBack(existing, batch) ==
    FileOf(JsonStringify(JArr(existing \o EntryValues(batch))))

\* addEntries after the read: an error thrown by JSON.parse or by push is
\* caught and the file is left as it is
AfterRead(file, r, batch) ==
    IF r.ok /\ r.val.t = "array" THEN WriteBack(r.val.v, batch) ELSE file

\* the entries file after addEntries(batch)
AddedTo(file, batch) ==
    IF batch = <<>> THEN file ELSE AfterRead(file, ReadExisting(file), batch)

\* addEntries: an error is thrown inside the try block (JSON.parse on the
\* text read, or push on what was parsed)
ThrownInAddEntries(r, batch) == batch # <<>> /\ ~(r.ok /\ r.val.t = "array")

\* `try { ... } catch (error) { console.error(...) }` around the body
AddEntriesCatches == TRUE

\* mutant: addEntries without its try/catch
AddEntriesThrowsUncaught(file, batch) ==
    ThrownInAddEntries(ReadExisting(file), batch)

\* addEntries throws to its caller: never, the try block holds the read,
\* the push and the write, and its catch only logs with console.error
AddEntriesThrows(file, batch) ==
    ThrownInAddEntries(ReadExisting(file), batch) /\ ~AddEntriesCatches

\* the log of the store operations: the last operation, whether the
\* entries file has been emptied by reset() or clear(), and the batches
\* handed to addEntries since
Logged(op, emptied, batches) == [op |-> op, emptied |-> emptied, batches |-> batches]

\* mutant: reset() removes the config file as well
resetBoth(p) ==
    /\ entriesFile' = FileAbsent
    /\ configFile' = FileAbsent
    /\ storeLog' = Logged("reset", TRUE, <<>>)
    /\ UNCHANGED <<runConfig, procs, reporter>>
    /\ UNCHANGED <<instanceVars, calls, reportVars>>

\* globalApiSpyStore.reset() called in process p
reset(p) ==
    /\ entriesFile' = FileAbsent
    /\ storeLog' = Logged("reset", TRUE, <<>>)
    /\ UNCHANGED <<configFile, runConfig, procs, reporter>>
    /\ UNCHANGED <<instanceVars, calls, reportVars>>

\* globalApiSpyStore.clear() called in process p
storeClear(p) ==
    /\ entriesFile' = FileAbsent
    /\ configFile' = FileAbsent
    /\ storeLog' = Logged("clear", TRUE, <<>>)
    /\ UNCHANGED <<runConfig, procs, reporter>>
    /\ UNCHANGED <<instanceVars, calls, reportVars>>

\* globalApiSpyStore.setConfig(config) called in process p
setConfig(p, config) ==
    /\ procs' = [procs EXCEPT ![p].config = config]
    /\ configFile' = FileOf(ConfigText(config))
    /\ storeLog' = [storeLog EXCEPT !.op = "setConfig"]
    /\ UNCHANGED <<entriesFile, runConfig, reporter>>
    /\ UNCHANGED <<instanceVars, calls, reportVars>>

\* globalApiSpyStore.addEntries(batch) called in process p, from its first
\* statement to its return with no other process in between
addEntries(p, batch) ==
    /\ Len(storeLog.batches) < MaxAdds
    /\ entriesFile' = AddedTo(entriesFile, batch)
    /\ procs' = [procs EXCEPT
                    ![p].batch = batch,
                    ![p].pc = IF AddEntriesThrows(entriesFile, batch)
                              THEN "failed" ELSE @]
    /\ storeLog' = Logged("addEntries", storeLog.emptied, Append(storeLog.batches, batch))
    /\ UNCHANGED <<configFile, runConfig, reporter>>
    /\ UNCHANGED <<instanceVars, calls, reportVars>>

(***************************************************************************)
(* The entries and configurations of the store specifications.             *)
(***************************************************************************)
StoreRequest(ref, headers, body) ==
    [ref |-> ref, method |-> "POST", url |-> PathA, path |-> PathA,
     headers |-> headers, body |-> body, metadata |-> Undefined]

FieldAToken == <<"a", "T", "o", "k", "e", "n">>

\* {"aToken":"s","n":1}
BodyWithToken == JObj(<< <<FieldAToken, JStr(<<"s">>)>>, <<<<"n">>, JNum(1)>> >>)

\* a response with a header and a nested body, an error, and a response
\* with no body
EntryA ==
    ResponseEntry(StoreRequest(1, << <<HdrAuth, <<"t">>>>, <<HdrX, <<"v">>>> >>,
                               BodyWithField),
                  [status |-> 200,
                   headers |-> << <<toLowerCase(HdrCookie), <<"c">>>> >>,
                   body |-> BodyWithFieldInArray])
EntryB == ErrorEntry(StoreRequest(2, NoHeaders, Undefined), NetworkError(2))
EntryC ==
    ResponseEntry(StoreRequest(3, << <<HdrCookie, <<"c">>>> >>, BodyWithToken),
                  [status |-> 500, headers |-> NoHeaders, body |-> Undefined])

\* what a test leaves in its instance's entry list
CapturedLists == {<<>>, <<EntryA>>, <<EntryB, EntryC>>}

CustomRedact ==
    [headers |-> <<toLowerCase(HdrAuth)>>, bodyFields |-> <<FieldK>>,
     replacement |-> <<"*", "*">>]

\* merged configurations a run's config file can pass to withApiSpy
RunConfigs ==
    { DEFAULT_CONFIG,
      [maxBodyLength |-> JNum(10000),
       htmlReport |-> [enabled |-> TRUE], jsonReport |-> [enabled |-> TRUE],
       redact |-> CustomRedact],
      [maxBodyLength |-> JNum(10000),
       htmlReport |-> [enabled |-> FALSE], jsonReport |-> [enabled |-> TRUE],
       redact |-> CustomRedact] }

\* what an earlier run can have left behind: nothing, a well-formed file, or
\* a file cut short
StaleEntriesFiles ==
    { FileAbsent,
      FileOf(JsonStringify(JArr(<<EntryValue(EntryB)>>))),
      FileOf(<<"[", "{">>),
      FileOf(<<>>) }

StaleConfig ==
    [maxBodyLength |-> JNum(10000),
     htmlReport |-> [enabled |-> TRUE], jsonReport |-> [enabled |-> FALSE],
     redact |-> [headers |-> <<>>, bodyFields |-> <<>>, replacement |-> Redacted]]

StaleConfigFiles ==
    { FileAbsent,
      FileOf(ConfigText(StaleConfig)),
      FileOf(<<"{", "\"">>) }

\* the instance of the single-instance specifications, unused
IdleInstance ==
    /\ peer = IdlePeer
    /\ redact = DefaultRedact
    /\ report = <<>>
    /\ filter = [includePaths |-> <<>>, excludePaths |-> <<>>, methods |-> <<>>]
    /\ entries = <<>>
    /\ paused = FALSE
    /\ context = Undefined
    /\ onRequestCallbacks = <<>>
    /\ onResponseCallbacks = <<>>
    /\ onErrorCallbacks = <<>>
    /\ calls = [c \in Calls |-> IdleCall]

(***************************************************************************)
(* The store on its own: any process calls any operation, one at a time.   *)
(***************************************************************************)
\* a configuration that turns truncation off: maxBodyLength: Infinity
UnlimitedConfig ==
    [maxBodyLength |-> Infinity,
     htmlReport |-> [enabled |-> FALSE], jsonReport |-> [enabled |-> TRUE],
     redact |-> CustomRedact]

StoreConfigs == {DEFAULT_CONFIG, UnlimitedConfig}

InitStore ==
    /\ IdleInstance
    /\ entriesFile \in StaleEntriesFiles
    /\ configFile \in StaleConfigFiles
    /\ runConfig = DEFAULT_CONFIG
    /\ procs = [p \in Procs |-> OffProc]
    /\ reporter = IdleReporter
    /\ storeLog = Logged("none", FALSE, <<>>)

NextStore ==
    \/ \E p \in Procs : reset(p)
    \/ \E p \in Procs : storeClear(p)
    \/ \E p \in Procs, config \in StoreConfigs : setConfig(p, config)
    \/ \E p \in Workers, batch \in CapturedLists : addEntries(p, batch)

SpecStore == InitStore /\ [][NextStore]_vars

(***************************************************************************)
(* A run: the runner process and then each worker process load the config  *)
(* file, which evaluates withApiSpy (config.ts); a worker runs a test with *)
(* the apiSpy fixture (extend.ts, and the same code in types.ts); when the *)
(* tests are over the reporter's onEnd runs in the runner process.         *)
(***************************************************************************)
\* withApiSpy evaluated in process p: reset() and setConfig(merged config)
withApiSpy(p) ==
    /\ reporter.pc = "idle"
    /\ procs[p].pc = "off"
    /\ p # Runner => procs[Runner].pc # "off"
    /\ entriesFile' = FileAbsent
    /\ configFile' = FileOf(ConfigText(runConfig))
    /\ procs' = [procs EXCEPT ![p].pc = "ready", ![p].config = runConfig]
    /\ storeLog' = Logged("setConfig", TRUE, <<>>)
    /\ UNCHANGED <<runConfig, reporter>>
    /\ UNCHANGED <<instanceVars, calls, reportVars>>

\* the apiSpy fixture up to `await use(spy)`: the instance is constructed
\* with globalApiSpyStore.config
FixtureSetup(p) ==
    /\ reporter.pc = "idle"
    /\ procs[p].pc = "ready"
    /\ procs' = [procs EXCEPT
                    ![p].pc = "test",
                    ![p].spyRedact = GetConfig(configFile, procs[p].config).redact,
                    ![p].spyEntries = <<>>]
    /\ UNCHANGED <<entriesFile, configFile, runConfig, reporter, storeLog>>
    /\ UNCHANGED <<instanceVars, calls, reportVars>>

\* mutant: the instance's entries are handed over as they are
FixtureBatchRaw(ents, config) == ents

\* `const entries = spy.getEntriesForReport()`
FixtureBatch(ents, config) == EntriesForReport(ents, config)

\* the process after the fixture's teardown
TornDown(proc, captured) ==
    [proc EXCEPT !.pc = "finished", !.spyEntries = captured,
                 !.batch = FixtureBatch(captured, proc.spyRedact)]

\* the fixture after `await use(spy)`, the test having left `captured` in
\* the instance: getEntriesForReport() and addEntries(entries), with no
\* other process in between
Teardown(p, captured) ==
    /\ reporter.pc = "idle"
    /\ procs[p].pc = "test"
    /\ procs' = [procs EXCEPT ![p] = TornDown(procs[p], captured)]
    /\ entriesFile' = AddedTo(entriesFile, procs'[p].batch)
    /\ storeLog' = Logged("addEntries", storeLog.emptied,
                          Append(storeLog.batches, procs'[p].batch))
    /\ UNCHANGED <<configFile, runConfig, reporter>>
    /\ UNCHANGED <<instanceVars, calls, reportVars>>

\* the process after addEntries has read the file (r): it goes on to write,
\* or addEntries has returned (empty batch) or caught an error
AfterTeardownRead(proc, r) ==
    IF proc.batch # <<>> /\ r.ok /\ r.val.t = "array"
    THEN [proc EXCEPT !.pc = "write", !.existing = r.val.v]
    ELSE proc

\* the teardown up to and including addEntries' readFileSync
TeardownRead(p, captured) ==
    /\ reporter.pc = "idle"
    /\ procs[p].pc = "test"
    /\ procs' = [procs EXCEPT ![p] = AfterTeardownRead(TornDown(procs[p], captured),
                                                      ReadExisting(entriesFile))]
    /\ storeLog' = Logged("addEntries", storeLog.emptied,
                          Append(storeLog.batches, procs'[p].batch))
    /\ UNCHANGED <<entriesFile, configFile, runConfig, reporter>>
    /\ UNCHANGED <<instanceVars, calls, reportVars>>

\* mutant: the write appends to what the file holds at the time of the write
WriteAfterReadCurrent(file, existing, batch) == AddedTo(file, batch)

\* addEntries' writeFileSync: what was read, with the batch pushed
WriteAfterRead(file, existing, batch) == WriteBack(existing, batch)

\* addEntries from the push to the return
TeardownWrite(p) ==
    /\ procs[p].pc = "write"
    /\ entriesFile' = WriteAfterRead(entriesFile, procs[p].existing, procs[p].batch)
    /\ procs' = [procs EXCEPT ![p].pc = "finished"]
    /\ storeLog' = [storeLog EXCEPT !.op = "write"]
    /\ UNCHANGED <<configFile, runConfig, reporter>>
    /\ UNCHANGED <<instanceVars, calls, reportVars>>

(***************************************************************************)
(* The reporter's onEnd, in its two implementations: ApiSpyReporterImpl    *)
(* (reporter.ts) and the exported ApiSpyReporter (types.ts).  json and     *)
(* html tell what became of each report: "none" (not attempted), "saved",  *)
(* or "failed" (save() threw).                                             *)
(***************************************************************************)
ReporterImpls == {"reporter.ts", "types.ts"}
SaveOutcomes == {"saved", "failed"}

Ended(pc, impl, config, ents, json, html) ==
    [pc |-> pc, impl |-> impl, config |-> config, entries |-> ents,
     json |-> json, html |-> html]

\* reporter.ts catches what save() throws; types.ts does not
Raises(impl, outcome) == outcome = "failed" /\ impl = "types.ts"

\* the HTML report and the end of onEnd
AfterHtml(impl, config, ents, json, html) ==
    IF Raises(impl, html)
    THEN Ended("raised", impl, config, ents, json, html)
    ELSE Ended("returned", impl, config, ents, json, html)

\* after the JSON report
AfterJson(impl, config, ents, json, htmlOutcome) ==
    IF Raises(impl, json)
    THEN Ended("raised", impl, config, ents, json, "none")
    ELSE AfterHtml(impl, config, ents, json,
                   IF config.htmlReport.enabled THEN htmlOutcome ELSE "none")

\* onEnd with config and entries read from the store
OnEndWith(impl, config, ents, jsonOutcome, htmlOutcome) ==
    IF ents.t = "array" /\ ents.v = <<>>
    THEN Ended("returned", impl, config, ents, "none", "none")
    ELSE AfterJson(impl, config, ents,
                   IF config.jsonReport.enabled THEN jsonOutcome ELSE "none",
                   htmlOutcome)

\* onEnd reached its last statement, globalApiSpyStore.clear()
Clears(rep) == rep.pc = "returned" /\ rep.entries # [t |-> "array", v |-> <<>>]

onEnd(impl, jsonOutcome, htmlOutcome) ==
    /\ reporter.pc = "idle"
    /\ procs[Runner].pc # "off"
    /\ \A p \in Workers : procs[p].pc \in {"off", "ready", "finished"}
    /\ reporter' = OnEndWith(impl, GetConfig(configFile, procs[Runner].config),
                             getAllEntries(entriesFile), jsonOutcome, htmlOutcome)
    /\ entriesFile' = IF Clears(reporter') THEN FileAbsent ELSE entriesFile
    /\ configFile' = IF Clears(reporter') THEN FileAbsent ELSE configFile
    /\ storeLog' = IF Clears(reporter') THEN Logged("clear", TRUE, <<>>) ELSE storeLog
    /\ UNCHANGED <<runConfig, procs>>
    /\ UNCHANGED <<instanceVars, calls, reportVars>>

InitRun ==
    /\ IdleInstance
    /\ entriesFile \in StaleEntriesFiles
    /\ configFile \in StaleConfigFiles
    /\ runConfig \in RunConfigs
    /\ procs = [p \in Procs |-> OffProc]
    /\ reporter = IdleReporter
    /\ storeLog = Logged("none", FALSE, <<>>)

\* a run whose workers go through addEntries one at a time
NextRun ==
    \/ \E p \in Procs : withApiSpy(p)
    \/ \E p \in Workers : FixtureSetup(p)
    \/ \E p \in Workers, captured \in CapturedLists : Teardown(p, captured)
    \/ \E impl \in ReporterImpls, j \in SaveOutcomes, h \in SaveOutcomes :
          onEnd(impl, j, h)

SpecRun == InitRun /\ [][NextRun]_vars

\* a run whose workers are separate processes inside addEntries as well
NextRace ==
    \/ \E p \in Procs : withApiSpy(p)
    \/ \E p \in Workers : FixtureSetup(p)
    \/ \E p \in Workers, captured \in CapturedLists : TeardownRead(p, captured)
    \/ \E p \in Workers : TeardownWrite(p)
    \/ \E impl \in ReporterImpls, j \in SaveOutcomes, h \in SaveOutcomes :
          onEnd(impl, j, h)

SpecRace == InitRun /\ [][NextRace]_vars

(***************************************************************************)
(* redact.ts on its own: one captured entry, with headers and a body drawn *)
(* from the lists below, is redacted by getEntriesForReport, and its body  *)
(* by redactFields.                                                        *)
(***************************************************************************)
\* redactFields applied to the body of the first entry's request
applyRedactFields ==
    /\ entries # <<>>
    /\ report' = << [fields |-> redactFields(entries[1].request.body,
                                             redact.bodyFields, redact.replacement)] >>
    /\ UNCHANGED <<filter, entries, paused, context, onRequestCallbacks,
                   onResponseCallbacks, onErrorCallbacks, calls, redact>>
    /\ UNCHANGED <<storeVars, peer>>

RedactHeaderLists ==
    { <<>>,
      << <<HdrAuth, <<"t">>>> >>,
      << <<toLowerCase(HdrAuth), <<"u">>>>, <<HdrX, <<"v">>>> >>,
      << <<HdrX, <<"v">>>>, <<HdrAuth, <<"t">>>>, <<toLowerCase(HdrAuth), <<"u">>>> >> }

\* {"k":{"k":"s","n":1,"b":true}}: an object under a matching key
BodyObjectUnderField ==
    JObj(<< <<FieldK, JObj(<< <<FieldK, JStr(<<"s">>)>>, <<<<"n">>, JNum(1)>>,
                              <<<<"b">>, JBool(TRUE)>> >>)>> >>)

\* {"x":[1,"s",{"K":"s"}],"k":0}
BodyArrayInObject ==
    JObj(<< <<<<"x">>, JArr(<<JNum(1), JStr(<<"s">>),
                              JObj(<< <<<<"K">>, JStr(<<"s">>)>> >>)>>)>>,
            <<FieldK, JNum(0)>> >>)

\* bodies as parseBody leaves them: absent, text, and parsed JSON texts
\* ("0", "false", "\"\"", objects and arrays)
RedactBodies ==
    { Undefined, JStr(<<"s">>), JStr(<<>>), JNum(0), JNum(7), JBool(FALSE),
      BodyWithField, BodyWithFieldInArray, BodyObjectUnderField, BodyArrayInObject }

RedactInputConfigs ==
    { [headers |-> <<toLowerCase(HdrAuth)>>, bodyFields |-> <<FieldK>>,
       replacement |-> Redacted],
      [headers |-> <<HdrX, HdrAuth>>, bodyFields |-> <<<<"A", "K">>, <<"n">>>>,
       replacement |-> <<"*">>],
      [headers |-> <<>>, bodyFields |-> <<>>, replacement |-> Redacted] }

RedactEntries ==
    { ResponseEntry(StoreRequest(1, hs, b),
                    [status |-> 200, headers |-> hs2, body |-> b2]) :
          hs \in RedactHeaderLists, b \in RedactBodies,
          hs2 \in {<<>>, << <<HdrAuth, <<"c">>>> >>}, b2 \in {Undefined, JNum(0), BodyWithField} }
    \cup { ErrorEntry(StoreRequest(1, hs, b), NetworkError(1)) :
              hs \in RedactHeaderLists, b \in RedactBodies }

InitRedact ==
    /\ redact \in RedactInputConfigs
    /\ report = <<>>
    /\ NoRun
    /\ filter = [includePaths |-> <<>>, excludePaths |-> <<>>, methods |-> <<>>]
    /\ \E entry \in RedactEntries : entries = <<entry>>
    /\ paused = FALSE
    /\ context = Undefined
    /\ onRequestCallbacks = <<>>
    /\ onResponseCallbacks = <<>>
    /\ onErrorCallbacks = <<>>
    /\ calls = [c \in Calls |-> IdleCall]

NextRedact ==
    \/ getEntriesForReport
    \/ applyRedactFields

SpecRedact == InitRedact /\ [][NextRedact]_vars

(***************************************************************************)
(* Truncation on its own: awaited calls whose request and response bodies  *)
(* are texts and objects just under, at and over maxBodyLength.            *)
(***************************************************************************)
Letters == <<"a", "b", "c", "d", "e", "f", "g", "h", "i", "j", "k", "l", "m",
             "n", "o", "p", "q", "r", "s", "t">>

\* a text of n letters, which JSON.parse rejects
Text(n) == SubSeq(Letters, 1, n)

\* {"a":1}
BodyUnderLimit == JObj(<< <<<<"a">>, JNum(1)>> >>)

TruncInputs ==
    { [prop |-> "post", url |-> PathA,
       options |-> [method |-> NoMethod, headers |-> NoHeaders, data |-> d]] :
          d \in { Undefined, JStr(Text(BodyLimit - 1)), JStr(Text(BodyLimit)),
                  JStr(Text(BodyLimit + 1)), JStr(Text(BodyLimit + 3)),
                  BodyUnderLimit, BodyCutInKey } }

TruncResponses ==
    { [status |-> 200, text |-> t, headers |-> NoHeaders] :
          t \in { Text(2), Text(BodyLimit), Text(BodyLimit + 2),
                  JsonStringify(BodyUnderLimit), JsonStringify(BodyCutInKey) } }

NextTrunc ==
    \/ \E c \in Calls, input \in TruncInputs : AwaitedCall(c, input)
    \/ \E c \in Calls : Invoke(c)
    \/ \E c \in Calls, response \in TruncResponses : Resolve(c, response)
    \/ \E c \in Calls : Reject(c)
    \/ \E c \in Calls : Catch(c)

SpecTrunc == InitReport /\ [][NextTrunc]_vars

(***************************************************************************)
(* ApiSpyInstance: the getters over the entry list.                        *)
(***************************************************************************)
RECURSIVE ResponsesOf(_)
\* `.filter((e) => e.response !== undefined).map((e) => e.response!)`
ResponsesOf(ents) ==
    IF ents = <<>> THEN <<>>
    ELSE (IF ents[1].response # Undefined THEN <<ents[1].response>> ELSE <<>>)
         \o ResponsesOf(Tail(ents))

\* `get responses()`
responses == ResponsesOf(entries)

\* `get lastResponse()`: this._entries[this._entries.length - 1]?.response
lastResponse ==
    IF entries = <<>> THEN Undefined ELSE entries[Len(entries)].response

(***************************************************************************)
(* config.ts: withApiSpy and mergeApiSpyConfig over JavaScript objects.    *)
(* Nested sections keep one or two of their members.                       *)
(***************************************************************************)
\* `key in obj`
HasKey(obj, key) == \E i \in DOMAIN obj.v : obj.v[i][1] = key

\* `a ?? b`
Coalesce(a, b) == IF a.t \in {"undefined", "null"} THEN b ELSE a

\* `obj?.key`
OptionalMember(obj, key) ==
    IF obj.t \in {"undefined", "null"} THEN Undefined ELSE Member(obj, key)

\* types.ts DEFAULT_CONFIG
DefaultConfigValue ==
    JObj(<< <<Key("console"), JBool(FALSE)>>,
            <<Key("verbosity"), JStr(<<"normal">>)>>,
            <<Key("htmlReport"),
              JObj(<< <<Key("enabled"), JBool(TRUE)>>,
                      <<Key("filename"), JStr(<<"api-spy.html">>)>> >>)>>,
            <<Key("jsonReport"), JObj(<< <<Key("enabled"), JBool(TRUE)>> >>)>>,
            <<Key("redact"), JObj(<< <<Key("replacement"), JStr(Redacted)>> >>)>>,
            <<Key("filter"), JObj(<< <<Key("methods"), JArr(<<>>)>> >>)>>,
            <<Key("maxBodyLength"), JNum(10000)>>,
            <<Key("colors"), JBool(TRUE)>>,
            <<Key("attachToPlaywrightReport"), JBool(TRUE)>> >>)

\* `config.key ?? DEFAULT_CONFIG.key`
MergedOption(config, key) ==
    Coalesce(Member(config, Key(key)), Member(DefaultConfigValue, Key(key)))

\* `config.section?.key ?? DEFAULT_CONFIG.section.key`
MergedSectionOption(config, section, key) ==
    Coalesce(OptionalMember(Member(config, Key(section)), Key(key)),
             Member(Member(DefaultConfigValue, Key(section)), Key(key)))

mergeApiSpyConfig(config) ==
    JObj(<< <<Key("console"), MergedOption(config, "console")>>,
            <<Key("verbosity"), MergedOption(config, "verbosity")>>,
            <<Key("colors"), MergedOption(config, "colors")>>,
            <<Key("maxBodyLength"), MergedOption(config, "maxBodyLength")>>,
            <<Key("attachToPlaywrightReport"),
              MergedOption(config, "attachToPlaywrightReport")>>,
            <<Key("htmlReport"),
              JObj(<< <<Key("enabled"), MergedSectionOption(config, "htmlReport", "enabled")>>,
                      <<Key("filename"),
                        MergedSectionOption(config, "htmlReport", "filename")>> >>)>>,
            <<Key("jsonReport"),
              JObj(<< <<Key("enabled"),
                        MergedSectionOption(config, "jsonReport", "enabled")>> >>)>>,
            <<Key("redact"),
              JObj(<< <<Key("replacement"),
                        MergedSectionOption(config, "redact", "replacement")>> >>)>>,
            <<Key("filter"),
              JObj(<< <<Key("methods"),
                        MergedSectionOption(config, "filter", "methods")>> >>)>> >>)

\* the keys by which withApiSpy takes its only argument for an API Spy
\* configuration
OverloadKeys ==
    {Key("console"), Key("verbosity"), Key("htmlReport"), Key("jsonReport"),
     Key("redact"), Key("filter")}

\* withApiSpy: `spyConfig` after the check of the overload used
SpyConfigArgument(configOrApiSpy, apiSpyConfig) ==
    IF apiSpyConfig # Undefined THEN apiSpyConfig
    ELSE IF \E key \in OverloadKeys : HasKey(configOrApiSpy, key)
    THEN configOrApiSpy
    ELSE JObj(<<>>)

\* withApiSpy(configOrApiSpy, apiSpyConfig) evaluated in process p, with the
\* arguments held by runConfig: reset(), setConfig(merged); the apiSpy
\* member of the returned object is the merged configuration, procs[p].config
withApiSpyArguments(p) ==
    /\ procs[p].pc = "off"
    /\ p # Runner => procs[Runner].pc # "off"
    /\ entriesFile' = FileAbsent
    /\ procs' = [procs EXCEPT
                    ![p].pc = "ready",
                    ![p].config = mergeApiSpyConfig(
                                      SpyConfigArgument(runConfig.configOrApiSpy,
                                                        runConfig.apiSpyConfig))]
    /\ configFile' = FileOf(JsonStringify(procs'[p].config))
    /\ storeLog' = Logged("setConfig", TRUE, <<>>)
    /\ UNCHANGED <<runConfig, reporter>>
    /\ UNCHANGED <<instanceVars, calls, reportVars>>

\* the options a config file supplies, each with a value that is not the
\* default one
SuppliedOptions ==
    << <<Key("console"), JBool(TRUE)>>,
       <<Key("verbosity"), JStr(<<"verbose">>)>>,
       <<Key("colors"), JBool(FALSE)>>,
       <<Key("maxBodyLength"), JNum(5)>>,
       <<Key("attachToPlaywrightReport"), JBool(FALSE)>>,
       <<Key("htmlReport"), JObj(<< <<Key("enabled"), JBool(FALSE)>> >>)>>,
       <<Key("jsonReport"), JObj(<< <<Key("enabled"), JBool(FALSE)>> >>)>>,
       <<Key("redact"), JObj(<< <<Key("replacement"), JStr(<<"*">>)>> >>)>>,
       <<Key("filter"), JObj(<< <<Key("methods"), JArr(<<JStr(<<"GET">>)>>)>> >>)>> >>

OptionKeys == {SuppliedOptions[i][1] : i \in DOMAIN SuppliedOptions}

\* the configuration object that supplies the options named by keys
OptionsObject(keys) == JObj(SelectSeq(SuppliedOptions, LAMBDA m : m[1] \in keys))

\* a Playwright configuration: { workers: 2 }
PlaywrightConfigValue == JObj(<< <<Key("workers"), JNum(2)>> >>)

\* withApiSpy(apiSpyConfig) for every set of options, and
\* withApiSpy(playwrightConfig, apiSpyConfig) for the sets of one option
WithApiSpyArguments ==
    { [configOrApiSpy |-> OptionsObject(keys), apiSpyConfig |-> Undefined] :
          keys \in SUBSET OptionKeys }
    \cup { [configOrApiSpy |-> PlaywrightConfigValue,
            apiSpyConfig |-> OptionsObject({key})] : key \in OptionKeys }

InitConfig ==
    /\ IdleInstance
    /\ entriesFile \in {FileAbsent, FileOf(JsonStringify(JArr(<<EntryValue(EntryB)>>)))}
    /\ configFile = FileAbsent
    /\ runConfig \in WithApiSpyArguments
    /\ procs = [p \in Procs |-> OffProc]
    /\ reporter = IdleReporter
    /\ storeLog = Logged("none", FALSE, <<>>)

NextConfig == \E p \in Procs : withApiSpyArguments(p)

SpecConfig == InitConfig /\ [][NextConfig]_vars

(***************************************************************************)
(* json-report.ts: the summary of JsonReportGenerator.generate, applied to *)
(* the entries of the instance.  Durations are whole milliseconds.         *)
(***************************************************************************)
\* entries.filter((e) => e.response).map((e) => e.response.duration)
RECURSIVE DurationsOf(_)
DurationsOf(ents) ==
    IF ents = <<>> THEN <<>>
    ELSE IF ents[1].response # Undefined
    THEN <<ents[1].response.duration>> \o DurationsOf(Tail(ents))
    ELSE DurationsOf(Tail(ents))

\* e.error || (e.response && e.response.status >= 400)
IsFailedErrorOnly(e) == e.error # Undefined

IsFailed(e) ==
    \/ e.error # Undefined
    \/ e.response # Undefined /\ e.response.status >= 400

\* durations.reduce((a, b) => a + b, 0)
RECURSIVE SumOf(_)
SumOf(durations) ==
    IF durations = <<>> THEN 0 ELSE durations[1] + SumOf(Tail(durations))

\* Math.round of the quotient of two naturals: halves go up
RoundedQuotient(sum, n) == (2 * sum + n) \div (2 * n)

\* Math.min(...durations) and Math.max(...durations), durations not empty
RECURSIVE MinOf(_)
MinOf(durations) ==
    IF Len(durations) = 1 THEN durations[1]
    ELSE IF durations[1] < MinOf(Tail(durations)) THEN durations[1]
    ELSE MinOf(Tail(durations))

RECURSIVE MaxOf(_)
MaxOf(durations) ==
    IF Len(durations) = 1 THEN durations[1]
    ELSE IF durations[1] > MaxOf(Tail(durations)) THEN durations[1]
    ELSE MaxOf(Tail(durations))

SummaryFrom(ents, durations, failedCount) ==
    [totalRequests |-> Len(ents),
     successfulRequests |-> Len(ents) - failedCount,
     failedRequests |-> failedCount,
     avgDuration |-> IF Len(durations) > 0
                     THEN RoundedQuotient(SumOf(durations), Len(durations))
                     ELSE 0,
     minDuration |-> IF Len(durations) > 0 THEN MinOf(durations) ELSE 0,
     maxDuration |-> IF Len(durations) > 0 THEN MaxOf(durations) ELSE 0]

SummaryOf(ents) ==
    SummaryFrom(ents, DurationsOf(ents), Len(SelectSeq(ents, IsFailed)))

\* new JsonReportGenerator().generate(spy.entries): report holds the summary
generate ==
    /\ report' = << [summary |-> SummaryOf(entries)] >>
    /\ UNCHANGED <<filter, entries, paused, context, onRequestCallbacks,
                   onResponseCallbacks, onErrorCallbacks, calls, redact>>
    /\ UNCHANGED <<storeVars, peer>>

\* an entry with a response of the given status and duration
TimedEntry(status, duration) ==
    [request |-> StoreRequest(<<"a">>, NoHeaders, Undefined),
     response |-> [status |-> status, headers |-> NoHeaders, body |-> Undefined,
                   duration |-> duration],
     error |-> Undefined]

\* an entry whose call failed and one whose call is still pending
FailedEntry ==
    [request |-> StoreRequest(<<"a">>, NoHeaders, Undefined),
     response |-> Undefined,
     error |-> [message |-> NetworkError(1), stack |-> NetworkError(1)]]

PendingEntry ==
    [request |-> StoreRequest(<<"a">>, NoHeaders, Undefined),
     response |-> Undefined,
     error |-> Undefined]

SummaryEntries ==
    { TimedEntry(200, 100), TimedEntry(201, 200), TimedEntry(404, 50),
      TimedEntry(400, 1), TimedEntry(399, 2), TimedEntry(200, 0),
      FailedEntry, PendingEntry }

MaxSummaryEntries == 3

InitSummary ==
    /\ redact = DefaultRedact
    /\ report = <<>>
    /\ NoRun
    /\ filter = [includePaths |-> <<>>, excludePaths |-> <<>>, methods |-> <<>>]
    /\ \E n \in 0..MaxSummaryEntries : entries \in [1..n -> SummaryEntries]
    /\ paused = FALSE
    /\ context = Undefined
    /\ onRequestCallbacks = <<>>
    /\ onResponseCallbacks = <<>>
    /\ onErrorCallbacks = <<>>
    /\ calls = [c \in Calls |-> IdleCall]

NextSummary == generate

SpecSummary == InitSummary /\ [][NextSummary]_vars

(***************************************************************************)
(* Hooks on their own: an instance on which up to MaxEventHooks hooks were *)
(* registered for each event, each returning or throwing, and awaited      *)
(* calls that resolve or reject.                                           *)
(***************************************************************************)
MaxEventHooks == 2

\* the lists of callbacks that onRequest, onResponse or onError has built
HookLists == UNION { [1..n -> HookKinds] : n \in 0..MaxEventHooks }

HookInputs ==
    { [prop |-> "get", url |-> PathA,
       options |-> [method |-> NoMethod, headers |-> NoHeaders, data |-> Undefined]] }

InitHooks ==
    /\ redact = DefaultRedact
    /\ report = <<>>
    /\ NoRun
    /\ filter = [includePaths |-> <<>>, excludePaths |-> <<>>, methods |-> <<>>]
    /\ entries = <<>>
    /\ paused = FALSE
    /\ context = Undefined
    /\ onRequestCallbacks \in HookLists
    /\ onResponseCallbacks \in HookLists
    /\ onErrorCallbacks \in HookLists
    /\ calls = [c \in Calls |-> IdleCall]

NextHooks ==
    \/ \E c \in Calls, input \in HookInputs : AwaitedCall(c, input)
    \/ \E c \in Calls : RequestHookDone(c)
    \/ \E c \in Calls : Invoke(c)
    \/ \E c \in Calls, response \in Responses : Resolve(c, response)
    \/ \E c \in Calls : Reject(c)
    \/ \E c \in Calls : ResponseHookDone(c)
    \/ \E c \in Calls : Catch(c)
    \/ \E c \in Calls : ErrorHookDone(c)

SpecHooks == InitHooks /\ [][NextHooks]_vars

(***************************************************************************)
(* api-spy.ts: generateId, and calls whose captured request carries the id *)
(* that captureRequest generated.  The clock and Math.random() are the     *)
(* environment's: a call reads a millisecond not before the last one read, *)
(* and any random number.                                                  *)
(***************************************************************************)
MaxMillis == 1

\* the values of Date.now()
Millis == 0..MaxMillis

\* Math.random().toString(36): "0." followed by the digits of the fraction
RandomText(fraction) == <<"0", ".">> \o fraction

\* text.substring(from, to), from and to counted from 0
Substring(text, from, to) ==
    SubSeq(text, from + 1, IF to < Len(text) THEN to ELSE Len(text))

\* `${Date.now()}-${Math.random().toString(36).substring(2, 9)}`
generateId(now, fraction) ==
    Digits(now) \o <<"-">> \o Substring(RandomText(fraction), 2, 9)

\* the fractions Math.random() draws, by their digits in base 36
SevenDigits == <<"k", "3", "x", "9", "q", "0", "z">>

RandomFractions ==
    { <<"i">>, <<"k", "3">>, SevenDigits, SevenDigits \o <<"b">> }

\* the request of captureRequest, with its id and timestamp
WithId(request, now, fraction) ==
    IF request = Null THEN Null
    ELSE [id |-> generateId(now, fraction), timestamp |-> now] @@ request

\* the millisecond the clock has reached
LastMillis ==
    LET read == {calls[c].request.timestamp :
                     c \in {d \in Calls : calls[d].request # Null}}
    IN IF read = {} THEN 0 ELSE CHOOSE m \in read : \A n \in read : n <= m

\* the test calls an intercepted method at millisecond now, and
\* Math.random() draws fraction
CallAt(c, input, now, fraction) ==
    /\ calls[c].pc = "idle"
    /\ \A d \in Calls : d < c => calls[d].pc # "idle"
    /\ now >= LastMillis
    /\ LET call == captureRequest(c,
                       [IdleCall EXCEPT !.input = input, !.pausedAtCall = paused],
                       EffectiveMethod(input.prop, input.options), input.url,
                       [headers |-> normalizeHeaders(input.options.headers),
                        data |-> input.options.data])
       IN calls' = [calls EXCEPT ![c] =
              [call EXCEPT !.request = WithId(call.request, now, fraction),
                           !.capturedRequest =
                               WithId(call.capturedRequest, now, fraction)]]
    /\ UNCHANGED <<reportVars, storeVars>>
    /\ UNCHANGED instanceVars

NextId ==
    \/ \E c \in Calls, input \in HookInputs, now \in Millis,
          fraction \in RandomFractions : CallAt(c, input, now, fraction)
    \/ \E c \in Calls : Invoke(c)
    \/ \E c \in Calls, response \in Responses : Resolve(c, response)
    \/ \E c \in Calls : Reject(c)
    \/ \E c \in Calls : Catch(c)

SpecId == InitReport /\ [][NextId]_vars

(***************************************************************************)
(* Two instances in one test: the test works with one of them at a time    *)
(* and may turn to the other at any moment, calls in flight included.      *)
(***************************************************************************)
\* the test turns to its other instance
Switch ==
    /\ peer' = [id |-> 3 - peer.id,
                filter |-> filter,
                entries |-> entries,
                paused |-> paused,
                context |-> context,
                onRequestCallbacks |-> onRequestCallbacks,
                onResponseCallbacks |-> onResponseCallbacks,
                onErrorCallbacks |-> onErrorCallbacks,
                calls |-> calls]
    /\ filter' = peer.filter
    /\ entries' = peer.entries
    /\ paused' = peer.paused
    /\ context' = peer.context
    /\ onRequestCallbacks' = peer.onRequestCallbacks
    /\ onResponseCallbacks' = peer.onResponseCallbacks
    /\ onErrorCallbacks' = peer.onErrorCallbacks
    /\ calls' = peer.calls
    /\ UNCHANGED <<redact, report, storeVars>>

\* two instances constructed with the default configuration
InitTwo ==
    /\ redact = DefaultRedact
    /\ report = <<>>
    /\ NoRun
    /\ filter = IdlePeer.filter
    /\ entries = <<>>
    /\ paused = FALSE
    /\ context = Undefined
    /\ onRequestCallbacks = <<>>
    /\ onResponseCallbacks = <<>>
    /\ onErrorCallbacks = <<>>
    /\ calls = [c \in Calls |-> IdleCall]

\* each instance makes one call, and registers one hook at most
NextTwo ==
    \/ \E input \in HookInputs : AwaitedCall(1, input)
    \/ \E c \in Calls : RequestHookDone(c)
    \/ \E c \in Calls : Invoke(c)
    \/ \E c \in Calls : Resolve(c, [status |-> 200, text |-> <<"o", "k">>,
                                      headers |-> NoHeaders])
    \/ \E c \in Calls : Reject(c)
    \/ \E c \in Calls : ResponseHookDone(c)
    \/ \E c \in Calls : ErrorHookDone(c)
    \/ addContext(<<"A">>)
    \/ clearContext
    \/ pause
    \/ resume
    \/ clear
    \/ onRequest("ok")
    \/ onResponse("ok")
    \/ onError("ok")
    \/ Switch

SpecTwo == InitTwo /\ [][NextTwo]_vars

(***************************************************************************)
(* A test that pauses and clears late: it calls pause() only while a call  *)
(* is in flight and nothing has been recorded, never resumes, and calls    *)
(* clear() only while a call is in flight.                                 *)
(***************************************************************************)
InFlight == \E c \in Calls : calls[c].pc = "waiting"

LatePause == InFlight /\ entries = <<>> /\ pause

LateClear == InFlight /\ clear

NextLate ==
    \/ \E c \in Calls, input \in CallInputs : Call(c, input)
    \/ \E c \in Calls : Invoke(c)
    \/ \E c \in Calls, response \in Responses : Resolve(c, response)
    \/ \E c \in Calls : Reject(c)
    \/ \E c \in Calls : Catch(c)
    \/ LatePause
    \/ LateClear

SpecLate == InitTwo /\ [][NextLate]_vars

(***************************************************************************)
(* Properties.                                                             *)
(***************************************************************************)
Issued(c) == calls[c].pc # "idle"
Done(c) == calls[c].pc = "done"

\* the arguments the test passed to the intercepted method
OriginalArguments(c) ==
    [prop |-> calls[c].input.prop, url |-> calls[c].input.url,
     options |-> calls[c].input.options]

\* captureRequest has returned to the wrapper (a request or null)
Returned(c) ==
    \/ calls[c].pc \in {"invoke", "waiting", "respHook", "catch", "errHook"}
    \/ (Done(c) /\ calls[c].outcome.kind # "pending")

NotCaptured(c) == Returned(c) /\ calls[c].capturedRequest = Null

\* the step is the test's call of an intercepted method, for call c
IsCallStep(c) == calls[c].pc = "idle" /\ calls'[c].pc # "idle"

RequestMethod(c) ==
    toUpperCase(EffectiveMethod(calls[c].input.prop, calls[c].input.options))

RequestPath(c) == extractPath(calls[c].input.url)

\* C1: for every finished call whose underlying call settled, the wrapped
\* call settled the same way: resolved with the same response object, or
\* rejected with the same error, whatever the hooks did.
C1_OutcomePreserved ==
    \A c \in Calls :
        Done(c) /\ calls[c].outcome.kind # "pending"
            => calls[c].result = calls[c].outcome

\* C2: every call of an intercepted method invokes the underlying method
\* exactly once with the caller's url and options: never twice, and once by
\* the time the call has finished.
C2_OriginalInvokedOnce ==
    \A c \in Calls :
        /\ Len(calls[c].underlying) <= 1
        /\ Done(c) => calls[c].underlying = <<OriginalArguments(c)>>

\* C3: when the underlying call rejected, a captured request has exactly one
\* entry appended for it, its error hooks were given the original error and
\* the wrapped call rejects with the original error; a request that was not
\* captured has nothing recorded and the original error is rethrown.
C3_ErrorCapturedAndRethrown ==
    \A c \in Calls :
        Done(c) /\ calls[c].outcome.kind = "rejected" =>
            /\ calls[c].result = calls[c].outcome
            /\ IF calls[c].capturedRequest # Null
               THEN /\ calls[c].pushes = 1
                    /\ \A i \in DOMAIN calls[c].hooks :
                          calls[c].hooks[i].kind = "error"
                              => calls[c].hooks[i].arg = calls[c].outcome.value
               ELSE /\ calls[c].pushes = 0
                    /\ calls[c].hooks = <<>>

\* C4: a request that captureRequest returned has no entry before its
\* response or error is available, exactly one entry appended once its call
\* has finished, and never two entries in the list.
C4_OneEntryPerCapturedRequest ==
    \A c \in Calls :
        calls[c].capturedRequest # Null =>
            /\ calls[c].pc \in {"invoke", "waiting"} => calls[c].pushes = 0
            /\ Done(c) => calls[c].pushes = 1
            /\ Cardinality({i \in DOMAIN entries : entries[i].request.ref = c}) <= 1

\* C5: a captureRequest that runs while the instance is paused returns null
\* and does nothing else: no request is built, no hook is invoked, and the
\* entry list, the context, the hook lists and the paused flag are unchanged.
C5_PausedCaptureIsNoOp ==
    [][\A c \in Calls :
          IsCallStep(c) /\ paused =>
              /\ calls'[c].pc = "invoke"
              /\ calls'[c].capturedRequest = Null
              /\ calls'[c].request = Null
              /\ calls'[c].hooks = <<>>
              /\ UNCHANGED instanceVars]_vars

\* C5 witness: a call was issued while paused, with a request hook registered
\* and an entry in the list
C5_PausedCallWitness ==
    \E c \in Calls :
        /\ calls[c].pausedAtCall
        /\ calls[c].pc = "invoke"
        /\ onRequestCallbacks # <<>>
        /\ entries # <<>>

\* C6: when the test awaits each call, registers no hook and the filter
\* accepts its calls, then whenever no call is in flight the number of
\* entries is the number of calls issued while the instance was not paused.
C6_EntriesCountUnpausedCalls ==
    Quiet => Len(entries)
                = Cardinality({c \in Calls : Issued(c) /\ ~calls[c].pausedAtCall})

\* C7: the filter decision is the conjunction of the three rules: accept when
\* the method is allowed, no exclude pattern matches the path and the include
\* list is empty or has a pattern that matches; reject otherwise.
PatternMatches(pattern, path) == RegExpValid(pattern) /\ RegExpTest(pattern, path)

ExcludeMatches(path) ==
    \E i \in DOMAIN filter.excludePaths : PatternMatches(filter.excludePaths[i], path)

IncludeMatches(path) ==
    \E i \in DOMAIN filter.includePaths : PatternMatches(filter.includePaths[i], path)

MethodAllowed(method) ==
    filter.methods = <<>> \/ \E i \in DOMAIN filter.methods : filter.methods[i] = method

\* what captureRequest decided for an unpaused call: "throw" when it raised,
\* "accept" when it built a request, "reject" when it returned null
Decision(c) ==
    IF Done(c) /\ calls[c].outcome.kind = "pending" /\ calls[c].request = Null
    THEN "throw"
    ELSE IF calls[c].request # Null THEN "accept" ELSE "reject"

C7_FilterIsConjunction ==
    \A c \in Calls :
        Issued(c) =>
            Decision(c) =
                IF /\ MethodAllowed(RequestMethod(c))
                   /\ ~ExcludeMatches(RequestPath(c))
                   /\ (filter.includePaths = <<>> \/ IncludeMatches(RequestPath(c)))
                THEN "accept" ELSE "reject"

\* C8: on an unpaused instance a request whose path passes the path rules is
\* captured exactly when the method list is empty or holds its upper-cased
\* method.
PathRulesPass(path) ==
    /\ \A i \in DOMAIN filter.excludePaths :
          RegExpValid(filter.excludePaths[i]) /\ ~RegExpTest(filter.excludePaths[i], path)
    /\ (filter.includePaths = <<>> \/ IncludeMatches(path))

C8_MethodAllowList ==
    \A c \in Calls :
        /\ Issued(c)
        /\ calls[c].pc # "reqHook"
        /\ ~calls[c].pausedAtCall
        /\ PathRulesPass(RequestPath(c))
        => (calls[c].capturedRequest # Null <=> MethodAllowed(RequestMethod(c)))

\* C9: a call whose captureRequest returned null has no hook invoked and no
\* entry appended for it, never reaches captureResponse or captureError, and
\* none of its steps changes the entry list, whether the underlying call
\* resolves or rejects.
C9_NotCapturedLeavesNoTrace ==
    [][\A c \in Calls :
          NotCaptured(c) /\ calls'[c] # calls[c] =>
              /\ entries' = entries
              /\ calls'[c].pc \in {"waiting", "done"}
              /\ calls'[c].hooks = <<>>
              /\ calls'[c].pushes = 0
              /\ calls'[c].capturedRequest = Null]_vars

\* C9 witness: a call that was not captured has finished with its underlying
\* call rejected, while hooks are registered and the list holds an entry
C9_NotCapturedWitness ==
    \E c \in Calls :
        /\ NotCaptured(c)
        /\ Done(c)
        /\ calls[c].outcome.kind = "rejected"
        /\ HookCount > 0
        /\ entries # <<>>

\* C10 as claimed: a captured request carries the context string in force
\* when captureRequest runs (the argument of the latest addContext not
\* followed by clearContext), and none when none is in force.
C10_ContextInForce ==
    [][\A c \in Calls :
          IsCallStep(c) /\ calls'[c].request # Null =>
              calls'[c].request.metadata
                  = IF context = Undefined THEN Undefined
                    ELSE [context |-> context]]_vars

\* C10 as amended: a captured request carries the context string in force
\* when captureRequest runs if that string is not empty, and no context when
\* none is in force or the string in force is empty; a request keeps the
\* metadata it was captured with, in flight and in the entry list, whatever
\* addContext and clearContext do later.
C10_NonEmptyContextInForce ==
    [][\A c \in Calls :
          /\ IsCallStep(c) /\ calls'[c].request # Null =>
                calls'[c].request.metadata
                    = IF context = Undefined \/ context = JStr(<<>>)
                      THEN Undefined
                      ELSE [context |-> context]
          /\ calls[c].request # Null => calls'[c].request = calls[c].request
          /\ \A i \in DOMAIN entries' :
                entries'[i].request.ref = c
                    => entries'[i].request = calls'[c].request]_vars

\* C10 witness: a request captured under context "A" is still in flight after
\* the context was cleared
C10_InFlightAfterClearWitness ==
    \E c \in Calls :
        /\ calls[c].pc = "waiting"
        /\ calls[c].request # Null
        /\ calls[c].request.metadata = [context |-> JStr(<<"A">>)]
        /\ context = Undefined

\* an entry was appended for call c in this step
Pushed(c) == calls'[c].pushes > calls[c].pushes

\* the list has been emptied by clear(): an entry was appended and none is left
Cleared == entries = <<>> /\ \E c \in Calls : calls[c].pushes > 0

\* C11: a clear() that empties a non-empty entry list leaves the paused flag,
\* the context, the three hook lists, the configuration and the calls in
\* flight as they were; and a call whose response or error is captured after
\* the list was emptied has its entry appended to the empty list.
C11_ClearOnlyEmptiesEntries ==
    [][/\ entries # <<>> /\ entries' = <<>> =>
            UNCHANGED <<filter, paused, context, onRequestCallbacks,
                        onResponseCallbacks, onErrorCallbacks, calls>>
       /\ \A c \in Calls :
            Cleared /\ Pushed(c) =>
                /\ Len(entries') = 1
                /\ entries'[1].request = calls[c].capturedRequest]_vars

\* C11 witness: the instance is paused with a hook registered and a context
\* set, the first call's entry was cleared away and the list holds the entry
\* of the second call
C11_CapturedAfterClearWitness ==
    /\ paused
    /\ HookCount > 0
    /\ context # Undefined
    /\ calls[1].pushes = 1
    /\ calls[2].pushes = 1
    /\ Len(entries) = 1
    /\ entries[1].request.ref = 2

\* the response or the error of call c is captured in this step
CaptureCompletes(c) ==
    /\ calls[c].capturedRequest # Null
    /\ calls[c].pc \in {"waiting", "catch"}
    /\ calls'[c].pc # calls[c].pc

\* C12: the entry list changes only by clear() or by appending one entry at
\* its end, in the step in which the response or error of the entry's call is
\* captured; a call that has not been issued or still waits for its response
\* has no entry.  So the list is in completion order, which is call order
\* when each call completes before the next is issued.
C12_EntriesInCompletionOrder ==
    [][/\ \/ entries' = entries
          \/ entries' = <<>>
          \/ \E c \in Calls :
                /\ CaptureCompletes(c)
                /\ Len(entries') = Len(entries) + 1
                /\ SubSeq(entries', 1, Len(entries)) = entries
                /\ entries'[Len(entries')].request = calls[c].capturedRequest
       /\ \A c \in Calls :
            calls'[c].pc \in {"idle", "reqHook", "invoke", "waiting"} =>
                \A i \in DOMAIN entries' : entries'[i].request.ref # c]_vars

\* C12 witness: two overlapping calls, the second completed first: the list
\* holds the entry of call 2 before the entry of call 1
C12_OverlappingCallsWitness ==
    /\ Len(entries) = 2
    /\ entries[1].request.ref = 2
    /\ entries[2].request.ref = 1
    /\ entries[1].response # Undefined
    /\ entries[2].response # Undefined

\* the value a header must have in the report
ExpectedHeaderValue(name, value) ==
    IF \E i \in DOMAIN redact.headers :
          toLowerCase(name) = toLowerCase(redact.headers[i])
    THEN redact.replacement ELSE value

\* the headers of the report are the stored ones, name by name, with the
\* configured names holding the replacement
HeadersRedacted(out, stored) ==
    /\ Len(out) = Len(stored)
    /\ \A j \in DOMAIN stored :
          /\ out[j][1] = stored[j][1]
          /\ out[j][2] = ExpectedHeaderValue(stored[j][1], stored[j][2])

\* the stored entries and what the hooks were given are the unredacted
\* originals: the request captureRequest returned and the captured response
OriginalsKept ==
    /\ \A i \in DOMAIN entries :
          entries[i].request = calls[entries[i].request.ref].capturedRequest
    /\ \A c \in Calls : \A h \in DOMAIN calls[c].hooks :
          /\ calls[c].hooks[h].request = calls[c].capturedRequest
          /\ \E i \in DOMAIN entries :
                /\ entries[i].request.ref = c
                /\ entries[i].response = calls[c].hooks[h].arg

\* C13: getEntriesForReport() returns a list of the length and order of the
\* entry list whose requests and present responses are the redactions of the
\* stored ones (configured headers replaced, the others kept) and whose
\* errors are the stored errors; the call changes neither the stored entries
\* nor the calls, and the stored entries and the arguments the hooks were
\* given are the unredacted originals.
C13_ReportIsRedactedCopy ==
    /\ []OriginalsKept
    /\ [][report' # report =>
            /\ UNCHANGED <<entries, calls, redact>>
            /\ Len(report') = Len(entries)
            /\ \A i \in DOMAIN entries :
                  /\ report'[i].request = redactRequest(entries[i].request, redact)
                  /\ HeadersRedacted(report'[i].request.headers,
                                     entries[i].request.headers)
                  /\ report'[i].error = entries[i].error
                  /\ IF entries[i].response = Undefined
                     THEN report'[i].response = Undefined
                     ELSE /\ report'[i].response
                               = redactResponse(entries[i].response, redact)
                          /\ HeadersRedacted(report'[i].response.headers,
                                             entries[i].response.headers)]_vars

\* C13 witness: a report of two entries, one with a redacted request header,
\* body field and response header whose stored entry still holds the
\* originals, and one with an error; a response hook has run
C13_RedactedReportWitness ==
    /\ Len(report) = 2
    /\ \E i \in DOMAIN report :
          /\ report[i].request.headers # <<>>
          /\ report[i].request.headers[1] = <<HdrAuth, Redacted>>
          /\ entries[i].request.headers[1] = <<HdrAuth, <<"t">>>>
          /\ report[i].request.body = JObj(<< <<FieldK, JStr(Redacted)>> >>)
          /\ entries[i].request.body = BodyWithField
          /\ report[i].response # Undefined
          /\ report[i].response.headers # <<>>
          /\ report[i].response.headers[1][2] = Redacted
          /\ entries[i].response.headers[1][2] = <<"c">>
    /\ \E j \in DOMAIN report : report[j].error # Undefined
    /\ \E c \in Calls : calls[c].hooks # <<>>

RECURSIVE Flatten(_)
\* b1 ++ ... ++ bn
Flatten(batches) ==
    IF batches = <<>> THEN <<>> ELSE Head(batches) \o Flatten(Tail(batches))

RECURSIVE Present(_)
RECURSIVE PresentAll(_)
RECURSIVE PresentMembers(_)
\* a value with its absent optional fields (members holding undefined) left
\* out, at every depth
Present(value) ==
    CASE value.t = "object" ->
            [t |-> "object",
             v |-> PresentMembers(SelectSeq(value.v, LAMBDA m : m[2] # Undefined))]
      [] value.t = "array" -> [t |-> "array", v |-> PresentAll(value.v)]
      [] OTHER -> value

PresentAll(values) ==
    IF values = <<>> THEN <<>>
    ELSE <<Present(values[1])>> \o PresentAll(Tail(values))

PresentMembers(ms) ==
    IF ms = <<>> THEN <<>>
    ELSE << <<ms[1][1], Present(ms[1][2])>> >> \o PresentMembers(Tail(ms))

SameName(name, configured) == toLowerCase(name) = toLowerCase(configured)

\* a body key matches a configured field: it is or contains the field's
\* name, letter case aside
KeyMatches(key, field) ==
    \E i \in 0..(Len(key) - Len(field)) :
        SameName(SubSeq(key, i + 1, i + Len(field)), field)

\* every header with a configured name holds the replacement
HeadersHoldReplacement(headers, config) ==
    \A i \in DOMAIN headers.v :
        (\E h \in DOMAIN config.headers : SameName(headers.v[i][1], config.headers[h]))
            => headers.v[i][2] = [t |-> "string", v |-> config.replacement]

RECURSIVE FieldsHoldReplacement(_, _)
\* every string field with a matching key holds the replacement, at every
\* depth of a body
FieldsHoldReplacement(body, config) ==
    CASE body.t = "object" ->
            \A i \in DOMAIN body.v :
                /\ (/\ body.v[i][2].t = "string"
                    /\ \E f \in DOMAIN config.bodyFields :
                          KeyMatches(body.v[i][1], config.bodyFields[f]))
                      => body.v[i][2].v = config.replacement
                /\ FieldsHoldReplacement(body.v[i][2], config)
      [] body.t = "array" ->
            \A i \in DOMAIN body.v : FieldsHoldReplacement(body.v[i], config)
      [] OTHER -> TRUE

\* a request or response read from the store is redacted
MessageRedacted(message, config) ==
    /\ HeadersHoldReplacement(Member(message, <<"headers">>), config)
    /\ FieldsHoldReplacement(Member(message, <<"body">>), config)

StoredEntryRedacted(entry, config) ==
    /\ MessageRedacted(Member(entry, <<"request">>), config)
    /\ Member(entry, <<"response">>) # Undefined
          => MessageRedacted(Member(entry, <<"response">>), config)

C15_WriteOverwritesFromOwnRead ==
    [][\A p \in Workers :
          (procs[p].pc = "write" /\ procs'[p].pc = "finished") =>
              getAllEntries(entriesFile').v
                  = procs[p].existing \o PresentAll(EntryValues(procs[p].batch))]_vars

\* C15 witness: both workers have read the empty collection, with no
\* reset() since the first read, pushed their own non-empty batch and
\* written, and getAllEntries() holds the batch of worker 2 and nothing of
\* worker 1
C15_LostUpdateWitness ==
    /\ \A p \in Workers :
          /\ procs[p].pc = "finished"
          /\ procs[p].batch # <<>>
          /\ procs[p].existing = <<>>
    /\ storeLog.op = "write"
    /\ storeLog.batches = <<procs[1].batch, procs[2].batch>>
    /\ getAllEntries(entriesFile).v = PresentAll(EntryValues(procs[2].batch))
    /\ \A i \in DOMAIN procs[1].batch :
          \A j \in DOMAIN getAllEntries(entriesFile).v :
              getAllEntries(entriesFile).v[j] # Present(EntryValue(procs[1].batch[i]))

\* the collection as the run sees it: the store's entries until onEnd, then
\* what onEnd read
RunCollection ==
    IF reporter.pc = "idle" THEN getAllEntries(entriesFile).v ELSE reporter.entries.v

\* C17: within a run, every entry of a batch added by a finished test is
\* still in the collection, up to and including what onEnd reads: no
\* evaluation of withApiSpy after the first removes entries already added.
C17_FinishedBatchesKept ==
    \A p \in Workers :
        procs[p].pc = "finished" =>
            \A i \in DOMAIN procs[p].batch :
                \E j \in DOMAIN RunCollection :
                    RunCollection[j] = Present(EntryValue(procs[p].batch[i]))

\* C19: once onEnd has returned, neither the entries file nor the config
\* file exists, whether or not the run captured entries.
C19_NoFilesAfterOnEnd ==
    reporter.pc = "returned" => (~entriesFile.exists /\ ~configFile.exists)

\* C20: when saving a report fails, onEnd of either implementation still
\* returns, has attempted the HTML report if it is enabled, and has cleared
\* the store.
C20_ReportFailureSwallowed ==
    (reporter.json = "failed" \/ reporter.html = "failed") =>
        /\ reporter.pc = "returned"
        /\ reporter.config.htmlReport.enabled => reporter.html # "none"
        /\ ~entriesFile.exists
        /\ ~configFile.exists

\* a store file that cannot be read: it is absent or does not hold JSON
Unreadable(file) == ~file.exists \/ ~JsonParse(file.data).ok

\* C21: with the entries file or the config file absent or malformed, the
\* config getter gives the process's in-memory configuration,
\* getAllEntries() gives the empty list, and addEntries() returns to its
\* caller leaving the file as it is; no worker fails in addEntries.
C21_StoreToleratesBadFiles ==
    /\ [](/\ Unreadable(entriesFile) =>
                getAllEntries(entriesFile) = [t |-> "array", v |-> <<>>]
          /\ Unreadable(configFile) =>
                \A p \in Procs : GetConfig(configFile, procs[p].config) = procs[p].config
          /\ \A p \in Procs : procs[p].pc # "failed")
    /\ [][(storeLog'.op = "addEntries" /\ entriesFile.exists /\ Unreadable(entriesFile))
              => entriesFile' = entriesFile]_vars

\* C21 witness: addEntries was called with a non-empty batch on a malformed
\* entries file while the config file is malformed too
C21_AddOnMalformedWitness ==
    /\ storeLog.op = "addEntries"
    /\ storeLog.batches # <<>>
    /\ storeLog.batches[Len(storeLog.batches)] # <<>>
    /\ entriesFile.exists
    /\ Unreadable(entriesFile)
    /\ configFile.exists
    /\ Unreadable(configFile)

\* the report holds what getEntriesForReport returned for the entries
ReportOfEntries ==
    /\ report # <<>>
    /\ "request" \in DOMAIN report[1]

\* the report holds what redactFields returned for the first request body
ReportOfFields ==
    /\ report # <<>>
    /\ "fields" \in DOMAIN report[1]

\* C22: in the output of redactRequest and redactResponse the headers are
\* those of the input, name by name in their original casing; a header whose
\* name equals a configured name, letter case aside, holds the replacement,
\* and every other header its original value.
C22_HeaderRedactionIgnoresCase ==
    ReportOfEntries =>
        \A i \in DOMAIN report :
            /\ HeadersRedacted(report[i].request.headers, entries[i].request.headers)
            /\ entries[i].response # Undefined =>
                  HeadersRedacted(report[i].response.headers,
                                  entries[i].response.headers)

\* C22 witness: a header written Auth is redacted under the configured name
\* auth, next to a header that keeps its value
C22_MixedCaseHeaderWitness ==
    /\ ReportOfEntries
    /\ redact.headers = <<toLowerCase(HdrAuth)>>
    /\ entries[1].request.headers
          = << <<HdrX, <<"v">>>>, <<HdrAuth, <<"t">>>>, <<toLowerCase(HdrAuth), <<"u">>>> >>
    /\ report[1].request.headers
          = << <<HdrX, <<"v">>>>, <<HdrAuth, Redacted>>, <<toLowerCase(HdrAuth), Redacted>> >>

RECURSIVE RedactionOf(_, _, _)
\* out is the depth-first redaction of value: objects keep their keys and
\* arrays their length and order; under a matching key a string becomes the
\* replacement; everything else is the redaction of what was there, and
\* strings, numbers and booleans elsewhere are what they were
RedactionOf(out, value, config) ==
    CASE value.t = "object" ->
            /\ out.t = "object"
            /\ Len(out.v) = Len(value.v)
            /\ \A i \in DOMAIN value.v :
                  /\ out.v[i][1] = value.v[i][1]
                  /\ IF /\ value.v[i][2].t = "string"
                        /\ \E f \in DOMAIN config.bodyFields :
                              KeyMatches(value.v[i][1], config.bodyFields[f])
                     THEN out.v[i][2] = [t |-> "string", v |-> config.replacement]
                     ELSE RedactionOf(out.v[i][2], value.v[i][2], config)
      [] value.t = "array" ->
            /\ out.t = "array"
            /\ Len(out.v) = Len(value.v)
            /\ \A i \in DOMAIN value.v : RedactionOf(out.v[i], value.v[i], config)
      [] OTHER -> out = value

\* C23: redactFields returns the depth-first redaction of its argument: at
\* every depth and inside arrays a string under a key that equals or
\* contains a configured field name (both lower-cased) is replaced, a
\* non-string under such a key and any value under another key is recursed
\* into, numbers and booleans are unchanged, array order is kept.
C23_BodyRedactionDepthFirst ==
    ReportOfFields => RedactionOf(report[1].fields, entries[1].request.body, redact)

\* C23 witness: with the field k, the object under the key k is recursed
\* into: its string under k is replaced, its number and boolean are kept
C23_NestedFieldWitness ==
    /\ ReportOfFields
    /\ redact.bodyFields = <<FieldK>>
    /\ entries[1].request.body = BodyObjectUnderField
    /\ report[1].fields
          = [t |-> "object",
             v |-> << <<FieldK,
                        [t |-> "object",
                         v |-> << <<FieldK, [t |-> "string", v |-> Redacted]>>,
                                  <<<<"n">>, [t |-> "number", v |-> 1]>>,
                                  <<<<"b">>, [t |-> "boolean", v |-> TRUE]>> >>]>> >>]

\* a request or response has a body
HasBody(message) == message.body # Undefined

\* C24: the output of redactRequest and redactResponse has a body exactly
\* when the input has one.
C24_BodyPresencePreserved ==
    ReportOfEntries =>
        \A i \in DOMAIN report :
            /\ HasBody(report[i].request) <=> HasBody(entries[i].request)
            /\ entries[i].response # Undefined =>
                  (HasBody(report[i].response) <=> HasBody(entries[i].response))

\* "... [truncated, n more chars]"
OmittedMarker(n) ==
    <<".", ".", ".", " ", "[", "t", "r", "u", "n", "c", "a", "t", "e", "d", ",", " ">>
        \o Digits(n)
        \o <<" ", "m", "o", "r", "e", " ", "c", "h", "a", "r", "s", "]">>

\* the length of a body: of the text, or of the JSON text of an object
BodyLength(body) ==
    IF body.t = "string" THEN Len(body.v) ELSE Len(JsonStringify(body))

\* stored is what the claim lets a captured body be stored as
StoredAsClaimed(stored, body) ==
    IF body.t = "string" /\ Len(body.v) > BodyLimit
    THEN stored = [t |-> "string",
                   v |-> SubSeq(body.v, 1, BodyLimit)
                            \o OmittedMarker(Len(body.v) - BodyLimit)]
    ELSE (body.t \in {"string", "object", "array"} /\ BodyLength(body) <= BodyLimit)
            => stored = body

\* the request body as captured, before truncation
CapturedRequestBody(c) ==
    IF Truthy(calls[c].input.options.data)
    THEN parseBody(calls[c].input.options.data) ELSE Undefined

\* the response body as captured, before truncation
CapturedResponseBody(c) ==
    IF Truthy(ResponseBody(calls[c].outcome.value))
    THEN parseBody(ResponseBody(calls[c].outcome.value)) ELSE Undefined

\* C25: a captured string body longer than maxBodyLength is stored as its
\* first maxBodyLength characters followed by the marker with the number of
\* omitted characters; a body at or under maxBodyLength is stored as it is.
C25_StringBodyTruncated ==
    \A i \in DOMAIN entries :
        /\ StoredAsClaimed(entries[i].request.body,
                           CapturedRequestBody(entries[i].request.ref))
        /\ entries[i].response # Undefined =>
              StoredAsClaimed(entries[i].response.body,
                              CapturedResponseBody(entries[i].request.ref))

\* C25 witness: a request text one character over the limit is stored cut
\* with "1 more chars", next to a response text at the limit stored whole,
\* and another entry holds a response text cut with "2 more chars"
C25_TruncatedTextWitness ==
    /\ \E i \in DOMAIN entries :
          /\ calls[entries[i].request.ref].input.options.data
                = [t |-> "string", v |-> Text(BodyLimit + 1)]
          /\ entries[i].request.body
                = [t |-> "string",
                   v |-> Text(BodyLimit)
                            \o <<".", ".", ".", " ", "[", "t", "r", "u", "n", "c", "a",
                                 "t", "e", "d", ",", " ", "1", " ", "m", "o", "r", "e",
                                 " ", "c", "h", "a", "r", "s", "]">>]
          /\ entries[i].response # Undefined
          /\ entries[i].response.body = [t |-> "string", v |-> Text(BodyLimit)]
    /\ \E j \in DOMAIN entries :
          /\ entries[j].response # Undefined
          /\ entries[j].response.body
                = [t |-> "string", v |-> Text(BodyLimit) \o OmittedMarker(2)]

\* C26: whenever the entry list holds at least one response (one was
\* captured since the last clear()), lastResponse is defined and is the last
\* element of responses.
C26_LastResponseIsLastOfResponses ==
    responses # <<>> =>
        /\ lastResponse # Undefined
        /\ lastResponse = responses[Len(responses)]

\* the names of the members of an object
KeysOf(obj) == {obj.v[i][1] : i \in DOMAIN obj.v}

\* the value of member key of an object that has it
ValueAt(obj, key) == obj.v[CHOOSE i \in DOMAIN obj.v : obj.v[i][1] = key][2]

\* a section is the supplied one over the default one: the default members,
\* each with the supplied value when the supplied section has it
SectionOver(section, supplied, default) ==
    /\ section.t = "object"
    /\ KeysOf(section) = KeysOf(default)
    /\ \A key \in KeysOf(default) :
          ValueAt(section, key)
              = IF key \in KeysOf(supplied) THEN ValueAt(supplied, key)
                ELSE ValueAt(default, key)

\* config is the supplied options merged over the defaults
SuppliedOverDefaults(config, supplied) ==
    /\ config.t = "object"
    /\ KeysOf(config) = KeysOf(DefaultConfigValue)
    /\ \A key \in KeysOf(DefaultConfigValue) :
          IF ValueAt(DefaultConfigValue, key).t = "object"
          THEN SectionOver(ValueAt(config, key),
                           IF key \in KeysOf(supplied) THEN ValueAt(supplied, key)
                           ELSE [t |-> "object", v |-> <<>>],
                           ValueAt(DefaultConfigValue, key))
          ELSE ValueAt(config, key)
                  = IF key \in KeysOf(supplied) THEN ValueAt(supplied, key)
                    ELSE ValueAt(DefaultConfigValue, key)

\* C27: after withApiSpy was called with one argument that supplies a
\* non-empty set of API Spy options, the returned apiSpy member and the
\* configuration read back from the config file are the supplied options
\* merged over the defaults.
C27_SingleArgumentApplied ==
    (/\ runConfig.apiSpyConfig = Undefined
     /\ runConfig.configOrApiSpy.v # <<>>) =>
        \A p \in Procs :
            procs[p].pc = "ready" =>
                /\ SuppliedOverDefaults(procs[p].config, runConfig.configOrApiSpy)
                /\ SuppliedOverDefaults(JsonParse(configFile.data).val,
                                        runConfig.configOrApiSpy)

\* the entries that have a response, by position
Responded == {i \in DOMAIN entries : entries[i].response # Undefined}

RECURSIVE TotalDuration(_)
TotalDuration(S) ==
    IF S = {} THEN 0
    ELSE LET i == CHOOSE j \in S : TRUE
         IN entries[i].response.duration + TotalDuration(S \ {i})

\* a is an integer nearest to total / n
NearestTo(a, total, n) == /\ 2 * (a * n - total) <= n
                          /\ 2 * (total - a * n) <= n

SummaryAsClaimed(summary) ==
    /\ summary.totalRequests = Len(entries)
    /\ summary.failedRequests =
           Cardinality({i \in DOMAIN entries :
                           \/ entries[i].error # Undefined
                           \/ i \in Responded /\ entries[i].response.status >= 400})
    /\ summary.successfulRequests = summary.totalRequests - summary.failedRequests
    /\ IF Responded = {}
       THEN /\ summary.avgDuration = 0
            /\ summary.minDuration = 0
            /\ summary.maxDuration = 0
       ELSE /\ NearestTo(summary.avgDuration, TotalDuration(Responded),
                         Cardinality(Responded))
            /\ \E i \in Responded : summary.minDuration = entries[i].response.duration
            /\ \A i \in Responded : summary.minDuration <= entries[i].response.duration
            /\ \E i \in Responded : summary.maxDuration = entries[i].response.duration
            /\ \A i \in Responded : summary.maxDuration >= entries[i].response.duration

\* C28: the summary of a generated report counts all entries as
\* totalRequests, the entries with an error or a status of at least 400 as
\* failedRequests and the rest as successfulRequests; avgDuration is the
\* mean of the response durations rounded to the nearest integer,
\* minDuration and maxDuration are their minimum and maximum, and the three
\* are 0 when no entry has a response.
C28_SummaryFigures ==
    report # <<>> => SummaryAsClaimed(report[1].summary)

\* durations 100, 200, 50 with one failure among three entries: 3 requests,
\* 2 successful, 1 failed, average 117, minimum 50, maximum 200
C28_RoundedAverageWitness ==
    /\ report # <<>>
    /\ Len(entries) = 3
    /\ \A i \in 1..3 : entries[i].response # Undefined
    /\ {entries[i].response.duration : i \in 1..3} = {100, 200, 50}
    /\ report[1].summary = [totalRequests |-> 3, successfulRequests |-> 2,
                            failedRequests |-> 1, avgDuration |-> 117,
                            minDuration |-> 50, maxDuration |-> 200]

\* the hooks registered for an event
CallbacksOf(kind) ==
    CASE kind = "request" -> onRequestCallbacks
      [] kind = "response" -> onResponseCallbacks
      [] kind = "error" -> onErrorCallbacks

EventKinds == {"request", "response", "error"}

\* the positions, in registration order, of the hooks invoked for an event
\* of call c, in the order of their invocation
RECURSIVE IndicesOf(_, _)
IndicesOf(hooks, kind) ==
    IF hooks = <<>> THEN <<>>
    ELSE IF hooks[1].kind = kind
    THEN <<hooks[1].idx>> \o IndicesOf(Tail(hooks), kind)
    ELSE IndicesOf(Tail(hooks), kind)

Invoked(c, kind) == IndicesOf(calls[c].hooks, kind)

\* C29: once a call has settled, for each of its request, response and
\* error events, a hook that was invoked and threw has not kept the hooks
\* registered after it from being invoked.
C29_ThrowingHookDoesNotStopLaterHooks ==
    \A c \in Calls, kind \in EventKinds :
        calls[c].pc = "done" =>
            \A i \in DOMAIN Invoked(c, kind) :
                CallbacksOf(kind)[Invoked(c, kind)[i]] = "throw" =>
                    \A j \in DOMAIN CallbacksOf(kind) :
                        j > Invoked(c, kind)[i] =>
                            \E m \in DOMAIN Invoked(c, kind) : Invoked(c, kind)[m] = j

\* C30: for each event of a call, the hooks are invoked in registration
\* order, each at most once and the next one only after the one before has
\* settled, and when the call has settled every hook registered for an
\* event that was captured has been invoked exactly once.
C30_HooksOnceInOrderOneAtATime ==
    \A c \in Calls, kind \in EventKinds :
        /\ \A i \in DOMAIN Invoked(c, kind) : Invoked(c, kind)[i] = i
        /\ (calls[c].pc = "reqHook" /\ kind = "request") =>
               Len(Invoked(c, kind)) = calls[c].k
        /\ (calls[c].pc = "respHook" /\ kind = "response") =>
               Len(Invoked(c, kind)) = calls[c].k
        /\ (calls[c].pc = "errHook" /\ kind = "error") =>
               Len(Invoked(c, kind)) = calls[c].k
        /\ (calls[c].pc = "done" /\ Invoked(c, kind) # <<>>) =>
               Len(Invoked(c, kind)) = Len(CallbacksOf(kind))

\* every hook registered for an event of call c has been invoked
AllInvoked(c, kind) == Len(Invoked(c, kind)) = Len(CallbacksOf(kind))

\* the last hook invoked for an event of call c is one that throws
LastThrew(c, kind) ==
    /\ Invoked(c, kind) # <<>>
    /\ CallbacksOf(kind)[Invoked(c, kind)[Len(Invoked(c, kind))]] = "throw"

\* the hook loop of an event of call c has ended: by its last hook or by a
\* hook that threw
LoopEnded(c, kind) == AllInvoked(c, kind) \/ LastThrew(c, kind)

HookPending(c) == calls[c].pc \in {"reqHook", "respHook", "errHook"}

\* C31: the original method of an intercepted call has been invoked only
\* if captureRequest has returned, all request hooks invoked and settled;
\* and the wrapped call has settled only if no hook is pending and, for a
\* captured request whose original method settled, an entry was appended
\* and the loop over the response hooks (when it resolves) or over the
\* error hooks (when it rejects) has ended.
C31_StepsOrdered ==
    \A c \in Calls :
        /\ calls[c].underlying # <<>> =>
              /\ calls[c].pc \notin {"idle", "reqHook", "invoke"}
              /\ calls[c].capturedRequest # Null => AllInvoked(c, "request")
              /\ \A i \in DOMAIN onRequestCallbacks : onRequestCallbacks[i] = "ok"
        /\ calls[c].result # Unsettled =>
              /\ ~HookPending(c)
              /\ calls[c].pc = "done"
              /\ (calls[c].outcome # Unsettled /\ calls[c].capturedRequest # Null) =>
                    IF calls[c].result.kind = "resolved"
                    THEN /\ calls[c].pushes = 1
                         /\ AllInvoked(c, "response")
                    ELSE /\ calls[c].pushes >= 1
                         /\ LoopEnded(c, "error")
        /\ calls[c].outcome # Unsettled => calls[c].underlying # <<>>

\* a call through two request hooks and two response hooks has resolved
C31_TwoHooksEachWitness ==
    \E c \in Calls :
        /\ Len(onRequestCallbacks) = 2
        /\ Len(onResponseCallbacks) = 2
        /\ calls[c].result # Unsettled
        /\ calls[c].result.kind = "resolved"
        /\ Invoked(c, "request") = <<1, 2>>
        /\ Invoked(c, "response") = <<1, 2>>
        /\ Len(calls[c].underlying) = 1

\* C32: every entry of the instance's list has exactly one of response and
\* error populated.
C32_ResponseXorError ==
    \A i \in DOMAIN entries :
        (entries[i].response # Undefined) # (entries[i].error # Undefined)

\* the list holds an entry appended by captureResponse and one appended by
\* captureError
C32_BothKindsWitness ==
    /\ \E i \in DOMAIN entries :
          entries[i].response # Undefined /\ entries[i].error = Undefined
    /\ \E i \in DOMAIN entries :
          entries[i].error # Undefined /\ entries[i].response = Undefined

\* C33: for every filter and every method and url, the filter evaluation
\* of captureRequest ends in accept or reject: no intercepted call rejects
\* with an exception raised while the filter was evaluated, and a call that
\* reached captureRequest goes on to invoke the original method.
C33_FilterNeverRaises ==
    \A c \in Calls :
        calls[c].pc # "idle" =>
            /\ calls[c].result # Rejected(RegExpError)
            /\ calls[c].pc = "invoke"

\* C34: no two requests captured by the instance have the same id.
C34_IdsUnique ==
    \A c, d \in Calls :
        (c # d /\ calls[c].request # Null /\ calls[d].request # Null) =>
            calls[c].request.id # calls[d].request.id

\* what the config getter returns in process p
ConfigSeenBy(p, file, ps) == GetConfig(file, ps[p].config)

\* C35: a setConfig(c) leaves every process's getConfig() equal to c, and
\* reset() and addEntries() leave every process's getConfig() as it was.
C35_ConfigReadBack ==
    [][/\ (storeLog'.op = "setConfig" =>
              \E p \in Procs, c \in StoreConfigs :
                  /\ procs' = [procs EXCEPT ![p].config = c]
                  /\ \A q \in Procs : ConfigSeenBy(q, configFile', procs') = c)
       /\ (storeLog'.op \in {"reset", "addEntries"} =>
              \A q \in Procs :
                  ConfigSeenBy(q, configFile', procs') = ConfigSeenBy(q, configFile, procs))]_vars

\* redactHeaders applied with the instance's configuration
RedactedAgain(headers) == redactHeaders(headers, redact.headers, redact.replacement)

\* C36: redacting the headers of an already-redacted request or response
\* with the same configuration gives the already-redacted headers.
C36_HeaderRedactionIdempotent ==
    ReportOfEntries =>
        \A i \in DOMAIN report :
            /\ RedactedAgain(report[i].request.headers) = report[i].request.headers
            /\ report[i].response # Undefined =>
                  RedactedAgain(report[i].response.headers)
                      = report[i].response.headers

\* a report whose request headers were changed by the redaction
C36_RedactedHeadersWitness ==
    /\ ReportOfEntries
    /\ report[1].request.headers # entries[1].request.headers
    /\ \E h \in DOMAIN report[1].request.headers :
          report[1].request.headers[h][2] = redact.replacement
    /\ \E h \in DOMAIN report[1].request.headers :
          report[1].request.headers[h][2] # redact.replacement

\* the entry list, paused flag, context and hook lists of instance i
InstanceState(i) ==
    IF peer.id = i
    THEN <<peer.entries, peer.paused, peer.context, peer.onRequestCallbacks,
           peer.onResponseCallbacks, peer.onErrorCallbacks>>
    ELSE <<entries, paused, context, onRequestCallbacks, onResponseCallbacks,
           onErrorCallbacks>>

\* C37: an operation on one instance leaves the entry list, paused flag,
\* context and hook lists of the other instance as they were: every step
\* leaves the state of the instance that the test is not working with in
\* that step unchanged.
C37_InstancesIsolated ==
    [][\E i \in {1, 2} : i = peer.id /\ InstanceState(i)' = InstanceState(i)]_vars

\* both instances hold an entry, one is paused with a context and a hook,
\* the other is not
C37_TwoBusyInstancesWitness ==
    /\ entries # <<>>
    /\ peer.entries # <<>>
    /\ paused /\ ~peer.paused
    /\ context # Undefined /\ peer.context = Undefined
    /\ onResponseCallbacks # <<>> /\ peer.onResponseCallbacks = <<>>

\* the step appends one entry, for the request of call c
AppendsFor(c) ==
    /\ Len(entries') = Len(entries) + 1
    /\ SubSeq(entries', 1, Len(entries)) = entries
    /\ entries'[Len(entries')].request = calls[c].capturedRequest

\* the step ends captureResponse's or captureError's synchronous part for
\* the captured request of call c
Recorded(c) ==
    /\ calls[c].capturedRequest # Null
    /\ \/ calls[c].pc = "waiting" /\ calls'[c].pc \notin {"waiting", "catch"}
       \/ calls[c].pc = "catch" /\ calls'[c].pc # "catch"

\* C38: when the response or error of a captured request arrives, its
\* entry is appended whatever the paused flag is and whether or not
\* clear() was called since the request was captured; an entry appended
\* while the instance is paused belongs to a call issued before the pause.
C38_LateOutcomeStillRecorded ==
    [][/\ \A c \in Calls : Recorded(c) => AppendsFor(c)
       /\ (paused /\ Len(entries') > Len(entries)) =>
              \E c \in Calls : AppendsFor(c) /\ ~calls[c].pausedAtCall]_vars

\* the instance was paused with a call in flight and nothing recorded, and
\* holds an entry; and the entry of call 1 was cleared with call 2 in
\* flight, whose entry the list holds
C38_RecordedAfterPauseAndClearWitness ==
    /\ paused
    /\ calls[1].pushes = 1
    /\ Len(entries) = 1
    /\ entries[1].request = calls[2].capturedRequest

\* the step invokes a hook for call c
HookStarts(c) == Len(calls'[c].hooks) > Len(calls[c].hooks)

\* the hook invocation that the step makes for call c
Started(c) == calls'[c].hooks[Len(calls'[c].hooks)]

\* lastEntry as the invoked hook finds it
LastEntryThen == entries'[Len(entries')]

====
